---- MODULE Spec2Model ----
(***************************************************************************)
(* A model of claude_transcript_archive/cli.py: the transcript derivation  *)
(* functions (title, artifacts), the catalog/manifest store and the        *)
(* archive orchestrator.                                                   *)
(*                                                                         *)
(* Text is modelled as a sequence of one-character strings, so that the    *)
(* regular expressions and slices of the source are computed character by  *)
(* character.  An absent value (Python None / missing key) of an optional  *)
(* field is the empty sequence <<>>, a present value v is <<v>>.           *)
(***************************************************************************)
EXTENDS Integers, Sequences, FiniteSets, TLC

VARIABLES
    content,      \* the transcript under scan: a sequence of lines
    project_dir,  \* extract_artifacts' project root: <<>> or <<path>>
    title,        \* generate_title_from_content(content)
    artifacts,    \* extract_artifacts(content, project_dir)
    manifest,     \* .session_manifest.json: session id -> directory name
    catalog,      \* CATALOG.json
    fs,           \* session directories under the archive root
    transcripts,  \* the source transcript file of every session id
    sidecar,      \* <transcript>.meta.json next to every transcript
    today,        \* datetime.now() as a day number
    env,          \* the external tools and the permissions of the machine
    last,         \* the most recent call: arguments, path taken, result
    steps,        \* the number of steps taken so far
    stats,        \* extract_session_stats(content)
    costs,        \* two token pools and estimate_cost of each and of their merge
    hints,        \* detect_relationship_hints(content)
    calls,        \* the archive call of every process: its position and locals
    writers       \* the process that saved the manifest and the catalog last

vars == <<content, project_dir, title, artifacts, manifest, catalog, fs,
          transcripts, sidecar, today, env, last, steps, stats, costs, hints, calls, writers>>

(***************************************************************************)
(* Characters and strings                                                  *)
(***************************************************************************)
UpperChars == <<"A","B","C","D","E","F","G","H","I","J","K","L","M","N","O","P","Q","R","S","T","U","V","W","X","Y","Z">>

LowerChars == <<"a","b","c","d","e","f","g","h","i","j","k","l","m","n","o","p","q","r","s","t","u","v","w","x","y","z">>

DigitChars == <<"0","1","2","3","4","5","6","7","8","9">>

Range(s) == {s[i] : i \in DOMAIN s}

\* the code points of the characters the model uses, in ascending order
CodePointOrder ==
    <<"\t", "\n", "\r", " ", "!", "#", ",", "-", ".", "/">> \o DigitChars
    \o <<":", "<", ">", "?">>
    \o UpperChars \o <<"_">> \o LowerChars

Chars == Range(CodePointOrder)

LowerOf ==
    [c \in Chars |->
        IF \E i \in DOMAIN UpperChars : UpperChars[i] = c
        THEN LowerChars[CHOOSE i \in DOMAIN UpperChars : UpperChars[i] = c]
        ELSE c]

\* str.lower() on one character
Lower(c) == LowerOf[c]

LowerStr(s) == [i \in DOMAIN s |-> Lower(s[i])]

WordChars == Range(UpperChars) \cup Range(LowerChars) \cup Range(DigitChars) \cup {"_"}

\* the regular expression class \w
IsWordChar(c) == c \in WordChars

\* the regular expression class \s
IsSpace(c) == c \in {" ", "\t", "\n", "\r"}

OrdOf == [c \in Chars |-> CHOOSE i \in DOMAIN CodePointOrder : CodePointOrder[i] = c]

Ord(c) == OrdOf[c]

\* Python's < on str: lexicographic by code point
RECURSIVE StrLess(_, _)
StrLess(a, b) ==
    IF b = <<>> THEN FALSE
    ELSE IF a = <<>> THEN TRUE
    ELSE IF Head(a) = Head(b) THEN StrLess(Tail(a), Tail(b))
    ELSE Ord(Head(a)) < Ord(Head(b))

\* s[:n]
Take(s, n) == SubSeq(s, 1, IF Len(s) < n THEN Len(s) ELSE n)

\* s[n:]
Drop(s, n) == SubSeq(s, n + 1, Len(s))

RECURSIVE LStrip(_)
LStrip(s) == IF s # <<>> /\ IsSpace(Head(s)) THEN LStrip(Tail(s)) ELSE s

RECURSIVE RStrip(_)
RStrip(s) == IF s # <<>> /\ IsSpace(s[Len(s)]) THEN RStrip(SubSeq(s, 1, Len(s) - 1)) ELSE s

\* str.strip()
Strip(s) == RStrip(LStrip(s))

\* re.match("^" + p, s, re.IGNORECASE) for a literal p
StartsWithCI(s, p) == Len(s) >= Len(p) /\ LowerStr(Take(s, Len(p))) = LowerStr(p)

(***************************************************************************)
(* Title generation                                                        *)
(***************************************************************************)
ide_patterns ==
    << <<"<","i","d","e","_","o","p","e","n","e","d","_","f","i","l","e",">">>,
       <<"<","i","d","e","_","s","e","l","e","c","t","i","o","n",">">>,
       <<"<","i","d","e","_","v","i","s","i","b","l","e","_","f","i","l","e","s",">">>,
       <<"<","s","y","s","t","e","m","-","r","e","m","i","n","d","e","r",">">>,
       <<"<","c","o","m","m","a","n","d","-","n","a","m","e",">">> >>

MinRequestLen == 10

\* a variant without the length test of line 643
is_ide_context_message_NoLength(text) ==
    text = <<>> \/ \E i \in DOMAIN ide_patterns : StartsWithCI(Strip(text), ide_patterns[i])

\* _is_ide_context_message
is_ide_context_message(text) ==
    IF text = <<>> THEN TRUE
    ELSE LET t == Strip(text) IN
         IF \E i \in DOMAIN ide_patterns : StartsWithCI(t, ide_patterns[i]) THEN TRUE
         ELSE Len(t) < MinRequestLen

greeting_pattern ==
    << <<"h","i">>, <<"h","e","l","l","o">>, <<"h","e","y">>,
       <<"p","l","e","a","s","e">>, <<"c","a","n"," ","y","o","u">>,
       <<"c","o","u","l","d"," ","y","o","u">> >>

\* does alternative i of greeting_pattern, followed by \s+, match at the start of t
GreetingMatches(t, i) ==
    /\ StartsWithCI(t, greeting_pattern[i])
    /\ Len(t) > Len(greeting_pattern[i])
    /\ IsSpace(t[Len(greeting_pattern[i]) + 1])

\* a variant that strips every leading phrase, not only the first
RECURSIVE StripGreetingAll(_)
StripGreetingAll(t) ==
    IF \E i \in DOMAIN greeting_pattern : GreetingMatches(t, i)
    THEN LET i == CHOOSE j \in DOMAIN greeting_pattern :
                      /\ GreetingMatches(t, j)
                      /\ \A k \in DOMAIN greeting_pattern : GreetingMatches(t, k) => j <= k
         IN StripGreetingAll(LStrip(Drop(t, Len(greeting_pattern[i]))))
    ELSE t

\* re.sub(r"^(hi|hello|hey|please|can you|could you)\s+", "", t, flags=re.IGNORECASE):
\* the pattern is anchored, so at most one match, at position 0, is replaced
StripGreeting(t) ==
    IF \E i \in DOMAIN greeting_pattern : GreetingMatches(t, i)
    THEN LET i == CHOOSE j \in DOMAIN greeting_pattern :
                      /\ GreetingMatches(t, j)
                      /\ \A k \in DOMAIN greeting_pattern : GreetingMatches(t, k) => j <= k
         IN LStrip(Drop(t, Len(greeting_pattern[i])))
    ELSE t

SentenceEnd == {".", "!", "?", "\n"}

\* re.split(r"[.!?\n]", t)[0]
RECURSIVE FirstSentence(_)
FirstSentence(t) ==
    IF t = <<>> \/ Head(t) \in SentenceEnd THEN <<>>
    ELSE <<Head(t)>> \o FirstSentence(Tail(t))

TitleMaxLen == 60

UntitledSession == <<"U","n","t","i","t","l","e","d"," ","S","e","s","s","i","o","n">>

\* lines 679-686: clean and truncate the accepted message
CleanTitle(msg_content) ==
    LET t == Take(FirstSentence(StripGreeting(Strip(msg_content))), TitleMaxLen)
    IN IF Strip(t) = <<>> THEN UntitledSession ELSE Strip(t)

\* a line is an entry whose role or type is "user"
IsUserEntry(line) ==
    line.kind = "entry" /\ (line.role = <<"user">> \/ line.type = <<"user">>)

\* lines 665-672: the message text the title is taken from; <<>> when the
\* line is skipped (list content without a block that has text)
RECURSIVE FirstBlockText(_)
FirstBlockText(blocks) ==
    IF blocks = <<>> THEN <<>>
    ELSE IF Head(blocks).text # <<>> THEN Head(blocks).text
    ELSE FirstBlockText(Tail(blocks))

TitleCandidate(line) ==
    IF line.content.kind = "list" THEN FirstBlockText(line.content.blocks)
    ELSE IF line.content.kind = "str" THEN line.content.text
    ELSE <<>>

RECURSIVE TitleScan(_, _)
TitleScan(lines, i) ==
    IF i > Len(lines) THEN UntitledSession
    ELSE IF ~IsUserEntry(lines[i]) THEN TitleScan(lines, i + 1)
    ELSE LET msg_content == TitleCandidate(lines[i]) IN
         IF Strip(msg_content) = <<>> THEN TitleScan(lines, i + 1)
         ELSE IF is_ide_context_message(msg_content) THEN TitleScan(lines, i + 1)
         ELSE CleanTitle(msg_content)

generate_title_from_content(lines) == TitleScan(lines, 1)

SlugMaxLen == 50

\* re.sub(r"[^\w\s-]", "", title)
RemoveUnsafe(s) == SelectSeq(s, LAMBDA c : IsWordChar(c) \/ IsSpace(c) \/ c = "-")

\* re.sub(r"\s+", "-", safe)
RECURSIVE CollapseSpace(_)
CollapseSpace(s) ==
    IF s = <<>> THEN <<>>
    ELSE IF IsSpace(Head(s)) THEN <<"-">> \o CollapseSpace(LStrip(s))
    ELSE <<Head(s)>> \o CollapseSpace(Tail(s))

RECURSIVE StripHyphens(_)
StripHyphens(s) ==
    IF s # <<>> /\ Head(s) = "-" THEN StripHyphens(Tail(s))
    ELSE IF s # <<>> /\ s[Len(s)] = "-" THEN StripHyphens(SubSeq(s, 1, Len(s) - 1))
    ELSE s

sanitize_filename(t) ==
    LET safe == StripHyphens(LowerStr(Take(CollapseSpace(RemoveUnsafe(t)), SlugMaxLen)))
    IN IF safe = <<>> THEN <<"u","n","t","i","t","l","e","d">> ELSE safe

(***************************************************************************)
(* Transcript lines.  A line is blank, malformed (not JSON) or an entry;   *)
(* an entry has an optional type, timestamp and message.role, and          *)
(* message.content is absent, a string or a list of blocks.                *)
(***************************************************************************)
Block(type, text, name, file_path) ==
    [type |-> type, text |-> text, name |-> name, file_path |-> file_path]

TextBlock(text) == Block("text", text, "", <<>>)

ToolUse(name, file_path) == Block("tool_use", <<>>, name, file_path)

ToolResult == Block("tool_result", <<>>, "", <<>>)

NoContent == [kind |-> "absent", text |-> <<>>, blocks |-> <<>>]

StrContent(text) == [kind |-> "str", text |-> text, blocks |-> <<>>]

ListContent(blocks) == [kind |-> "list", text |-> <<>>, blocks |-> blocks]

\* a block of type thinking
Thinking == Block("thinking", <<>>, "", <<>>)

\* an event with every field the scans read: usage is the record's top-level
\* usage, message_usage the usage inside message, each <<>> or <<dict>>; model
\* is message.model and version the record's version, "" when absent
Event(type, role, timestamp, c, usage, message_usage, model, version) ==
    [kind |-> "entry", type |-> type, role |-> role, timestamp |-> timestamp, content |-> c,
     usage |-> usage, message_usage |-> message_usage, model |-> model, version |-> version]

Entry(type, role, timestamp, c) == Event(type, role, timestamp, c, <<>>, <<>>, "", "")

BlankLine ==
    [kind |-> "blank", type |-> <<>>, role |-> <<>>, timestamp |-> <<>>, content |-> NoContent,
     usage |-> <<>>, message_usage |-> <<>>, model |-> "", version |-> ""]

MalformedLine ==
    [kind |-> "malformed", type |-> <<>>, role |-> <<>>, timestamp |-> <<>>, content |-> NoContent,
     usage |-> <<>>, message_usage |-> <<>>, model |-> "", version |-> ""]

(***************************************************************************)
(* Artifact extraction                                                     *)
(***************************************************************************)
FILE_TYPE_MAPPINGS ==
    << [ext |-> <<".","p","y">>, type |-> "code"],
       [ext |-> <<".","j","s">>, type |-> "code"],
       [ext |-> <<".","t","s">>, type |-> "code"],
       [ext |-> <<".","t","s","x">>, type |-> "code"],
       [ext |-> <<".","j","s","x">>, type |-> "code"],
       [ext |-> <<".","s","h">>, type |-> "code"],
       [ext |-> <<".","b","a","s","h">>, type |-> "code"],
       [ext |-> <<".","r">>, type |-> "code"],
       [ext |-> <<".","R">>, type |-> "code"],
       [ext |-> <<".","s","q","l">>, type |-> "code"],
       [ext |-> <<".","g","o">>, type |-> "code"],
       [ext |-> <<".","r","s">>, type |-> "code"],
       [ext |-> <<".","j","a","v","a">>, type |-> "code"],
       [ext |-> <<".","c">>, type |-> "code"],
       [ext |-> <<".","c","p","p">>, type |-> "code"],
       [ext |-> <<".","h">>, type |-> "code"],
       [ext |-> <<".","h","p","p">>, type |-> "code"],
       [ext |-> <<".","m","d">>, type |-> "document"],
       [ext |-> <<".","t","x","t">>, type |-> "document"],
       [ext |-> <<".","r","s","t">>, type |-> "document"],
       [ext |-> <<".","t","e","x">>, type |-> "document"],
       [ext |-> <<".","j","s","o","n">>, type |-> "data"],
       [ext |-> <<".","c","s","v">>, type |-> "data"],
       [ext |-> <<".","j","s","o","n","l">>, type |-> "data"],
       [ext |-> <<".","g","e","o","j","s","o","n">>, type |-> "data"],
       [ext |-> <<".","x","m","l">>, type |-> "data"],
       [ext |-> <<".","y","a","m","l">>, type |-> "config"],
       [ext |-> <<".","y","m","l">>, type |-> "config"],
       [ext |-> <<".","t","o","m","l">>, type |-> "config"],
       [ext |-> <<".","i","n","i">>, type |-> "config"],
       [ext |-> <<".","e","n","v">>, type |-> "config"],
       [ext |-> <<".","p","n","g">>, type |-> "image"],
       [ext |-> <<".","j","p","g">>, type |-> "image"],
       [ext |-> <<".","j","p","e","g">>, type |-> "image"],
       [ext |-> <<".","g","i","f">>, type |-> "image"],
       [ext |-> <<".","s","v","g">>, type |-> "image"],
       [ext |-> <<".","p","d","f">>, type |-> "document"],
       [ext |-> <<".","h","t","m","l">>, type |-> "document"] >>

\* str.split("/")
RECURSIVE SplitSlash(_, _)
SplitSlash(s, cur) ==
    IF s = <<>> THEN <<cur>>
    ELSE IF Head(s) = "/" THEN <<cur>> \o SplitSlash(Tail(s), <<>>)
    ELSE SplitSlash(Tail(s), Append(cur, Head(s)))

\* "/".join(parts)
RECURSIVE JoinSlash(_)
JoinSlash(parts) ==
    IF parts = <<>> THEN <<>>
    ELSE IF Len(parts) = 1 THEN parts[1]
    ELSE parts[1] \o <<"/">> \o JoinSlash(Tail(parts))

\* the process's working directory, against which Path.resolve() resolves a relative path
Cwd == << <<"w">> >>

\* Path.resolve() without symbolic links: the components of the absolute path,
\* empty and "." components dropped, ".." applied
RECURSIVE Normalize(_, _)
Normalize(parts, acc) ==
    IF parts = <<>> THEN acc
    ELSE IF Head(parts) = <<>> \/ Head(parts) = <<".">> THEN Normalize(Tail(parts), acc)
    ELSE IF Head(parts) = <<".", ".">>
         THEN Normalize(Tail(parts), IF acc = <<>> THEN acc ELSE SubSeq(acc, 1, Len(acc) - 1))
    ELSE Normalize(Tail(parts), Append(acc, Head(parts)))

Resolve(path) ==
    IF path # <<>> /\ Head(path) = "/" THEN Normalize(SplitSlash(path, <<>>), <<>>)
    ELSE Normalize(Cwd \o SplitSlash(path, <<>>), <<>>)

IsPrefix(p, s) == Len(p) <= Len(s) /\ SubSeq(s, 1, Len(p)) = p

\* extract_artifacts.make_relative, root = <<>> when no project_dir is given
make_relative(path, root) ==
    IF root # <<>>
    THEN LET resolved == Resolve(path)
             base == Resolve(root[1])
         IN IF IsPrefix(base, resolved)
            THEN IF Len(resolved) = Len(base) THEN <<".">>
                 ELSE JoinSlash(SubSeq(resolved, Len(base) + 1, Len(resolved)))
            ELSE path
    ELSE path

\* Path(file_path).suffix.lower()
Suffix(path) ==
    LET parts == SelectSeq(SplitSlash(path, <<>>), LAMBDA p : p # <<>>)
        name == IF parts = <<>> THEN <<>> ELSE parts[Len(parts)]
        dots == {i \in DOMAIN name : name[i] = "."}
    IN IF dots = {} THEN <<>>
       ELSE LET i == CHOOSE d \in dots : \A e \in dots : e <= d
            IN IF i > 1 /\ i < Len(name) THEN LowerStr(Drop(name, i - 1)) ELSE <<>>

get_file_type(path) ==
    LET ext == Suffix(path) IN
    IF \E i \in DOMAIN FILE_TYPE_MAPPINGS : FILE_TYPE_MAPPINGS[i].ext = ext
    THEN FILE_TYPE_MAPPINGS[CHOOSE i \in DOMAIN FILE_TYPE_MAPPINGS :
                                FILE_TYPE_MAPPINGS[i].ext = ext].type
    ELSE "other"

\* lines 487-497: the file paths one line contributes for the tool tool_name
BlockPaths(line, tool_name) ==
    IF line.kind = "entry" /\ line.content.kind = "list"
    THEN {b.file_path : b \in {x \in Range(line.content.blocks) :
                                  /\ x.type = "tool_use"
                                  /\ x.file_path # <<>>
                                  /\ x.name = tool_name}}
    ELSE {}

\* lines 476-504: the set a whole scan accumulates for the tool tool_name
ToolPaths(lines, tool_name) == UNION {BlockPaths(lines[i], tool_name) : i \in DOMAIN lines}

\* sorted(S) for a set of strings
RECURSIVE SortedSeq(_)
SortedSeq(S) ==
    IF S = {} THEN <<>>
    ELSE LET m == CHOOSE x \in S : \A y \in S : y = x \/ StrLess(x, y)
         IN <<m>> \o SortedSeq(S \ {m})

ArtifactList(S, root) ==
    LET sorted == SortedSeq(S) IN
    [i \in DOMAIN sorted |->
        [path |-> make_relative(sorted[i], root), type |-> get_file_type(sorted[i])]]

\* a variant in which an edit takes a written path out of created
extract_artifacts_EditWins(lines, root) ==
    LET written_files == ToolPaths(lines, "Write")
        edited_files == ToolPaths(lines, "Edit")
        read_files == ToolPaths(lines, "Read")
    IN [created |-> ArtifactList(written_files \ edited_files, root),
        modified |-> ArtifactList(edited_files, root),
        referenced |-> ArtifactList((read_files \ edited_files) \ written_files, root)]

extract_artifacts(lines, root) ==
    LET written_files == ToolPaths(lines, "Write")
        edited_files == ToolPaths(lines, "Edit")
        read_files == ToolPaths(lines, "Read")
        created == written_files
        modified == edited_files \ written_files
        referenced == (read_files \ edited_files) \ written_files
    IN [created |-> ArtifactList(created, root),
        modified |-> ArtifactList(modified, root),
        referenced |-> ArtifactList(referenced, root)]

(***************************************************************************)
(* Session statistics: the timestamps (lines 376-379 and 431-444)          *)
(***************************************************************************)
Timestamps(lines) ==
    {lines[i].timestamp[1] : i \in {j \in DOMAIN lines :
        lines[j].kind = "entry" /\ lines[j].timestamp # <<>> /\ lines[j].timestamp[1] # <<>>}}

\* min(stats["timestamps"]) as <<>> or <<timestamp>>
StartedAt(lines) ==
    LET ts == Timestamps(lines) IN
    IF ts = {} THEN <<>>
    ELSE <<CHOOSE x \in ts : \A y \in ts : y = x \/ StrLess(x, y)>>

\* max(stats["timestamps"]) as <<>> or <<timestamp>>
EndedAt(lines) ==
    LET ts == Timestamps(lines) IN
    IF ts = {} THEN <<>>
    ELSE <<CHOOSE x \in ts : \A y \in ts : y = x \/ StrLess(y, x)>>

\* the two-digit number at position i of s, <<>> when there is none
TwoDigits(s, i) ==
    LET IsDigit(c) == \E d \in DOMAIN DigitChars : DigitChars[d] = c
        DigitVal(c) == (CHOOSE d \in DOMAIN DigitChars : DigitChars[d] = c) - 1
    IN IF i + 1 <= Len(s) /\ IsDigit(s[i]) /\ IsDigit(s[i + 1])
       THEN <<10 * DigitVal(s[i]) + DigitVal(s[i + 1])>>
       ELSE <<>>

\* the time of day hh:mm or hh:mm:ss in seconds, <<>> when s is not one (the
\* date that precedes it in an ISO timestamp is left out of the texts)
ParseClock(s) ==
    LET hh == TwoDigits(s, 1)
        mm == TwoDigits(s, 4)
        ss == IF Len(s) = 8 THEN TwoDigits(s, 7) ELSE <<0>>
    IN IF /\ Len(s) \in {5, 8}
          /\ s[3] = ":"
          /\ Len(s) = 8 => s[6] = ":"
          /\ hh # <<>> /\ mm # <<>> /\ ss # <<>>
          /\ hh[1] < 24 /\ mm[1] < 60 /\ ss[1] < 60
       THEN <<3600 * hh[1] + 60 * mm[1] + ss[1]>>
       ELSE <<>>

\* datetime.fromisoformat(ts.replace("Z", "+00:00")): <<>> when it raises
\* ValueError, else whether the datetime is aware and its seconds (UTC when
\* aware).  A zone is a final Z or a final -hh:00 (hours west of UTC).
fromisoformat(ts) ==
    IF ts # <<>> /\ ts[Len(ts)] = "Z"
    THEN LET clock == ParseClock(SubSeq(ts, 1, Len(ts) - 1))
         IN IF clock = <<>> THEN <<>> ELSE <<[aware |-> TRUE, seconds |-> clock[1]]>>
    ELSE IF /\ Len(ts) > 6
            /\ ts[Len(ts) - 5] = "-"
            /\ TwoDigits(ts, Len(ts) - 4) # <<>>
            /\ SubSeq(ts, Len(ts) - 2, Len(ts)) = <<":","0","0">>
    THEN LET clock == ParseClock(SubSeq(ts, 1, Len(ts) - 6))
             west == TwoDigits(ts, Len(ts) - 4)[1]
         IN IF clock = <<>> \/ west >= 24 THEN <<>>
            ELSE <<[aware |-> TRUE, seconds |-> clock[1] + 3600 * west]>>
    ELSE LET clock == ParseClock(ts)
         IN IF clock = <<>> THEN <<>> ELSE <<[aware |-> FALSE, seconds |-> clock[1]]>>

\* int(x / 60) for an integer number of seconds x: truncation towards zero
TruncMinutes(x) == IF x >= 0 THEN x \div 60 ELSE 0 - ((0 - x) \div 60)

\* lines 432-444: duration_minutes
DurationMinutes(lines) ==
    IF Timestamps(lines) = {} THEN 0
    ELSE LET start == fromisoformat(StartedAt(lines)[1])
             end == fromisoformat(EndedAt(lines)[1])
         IN IF start = <<>> \/ end = <<>> THEN 0
            ELSE IF start[1].aware # end[1].aware THEN 0
            ELSE TruncMinutes(end[1].seconds - start[1].seconds)

SnapshotType == <<"f","i","l","e","-","h","i","s","t","o","r","y","-","s","n","a","p","s","h","o","t">>

\* line 383
IsSnapshot(line) == line.type = SnapshotType

\* line 387: message.get("role", entry_type or "")
EffectiveRole(line) == IF line.role # <<>> THEN line.role ELSE line.type

\* line 389
CountsAsUser(line) == EffectiveRole(line) = <<"user">> \/ line.type = <<"user">>

\* line 393, reached when line 389 is false
CountsAsAssistant(line) ==
    /\ ~CountsAsUser(line)
    /\ (EffectiveRole(line) = <<"assistant">> \/ line.type = <<"assistant">>)

\* usage.get(counter, 0)
UsageGet(usage, counter) == IF counter \in DOMAIN usage THEN usage[counter] ELSE 0

\* line 425: the usage record the scan reads, the record's top-level one
UsageOf(line) == line.usage

EmptyStats ==
    [turns |-> 0, human_messages |-> 0, assistant_messages |-> 0, thinking_blocks |-> 0,
     tool_calls |-> [total |-> 0, by_type |-> [n \in {} |-> 0]],
     tokens |-> [input |-> 0, output |-> 0, cache_read |-> 0],
     model |-> "", claude_code_version |-> ""]

\* lines 398-410: the blocks of one assistant message
RECURSIVE CountBlocks(_, _)
CountBlocks(acc, blocks) ==
    IF blocks = <<>> THEN acc
    ELSE LET b == Head(blocks)
             tool_name == IF b.name = "" THEN "unknown" ELSE b.name
             by == acc.tool_calls.by_type
             acc1 ==
                 IF b.type = "thinking"
                 THEN [acc EXCEPT !.thinking_blocks = @ + 1]
                 ELSE IF b.type = "tool_use"
                 THEN [acc EXCEPT
                          !.tool_calls.total = @ + 1,
                          !.tool_calls.by_type =
                              [n \in DOMAIN by \cup {tool_name} |->
                                  IF n = tool_name
                                  THEN (IF n \in DOMAIN by THEN by[n] ELSE 0) + 1
                                  ELSE by[n]]]
                 ELSE acc
         IN CountBlocks(acc1, Tail(blocks))

\* lines 381-429: one line of the loop, after its timestamp was collected
StatsStep(acc, line) ==
    IF line.kind # "entry" \/ IsSnapshot(line) THEN acc
    ELSE LET counted ==
                 IF CountsAsUser(line)
                 THEN [acc EXCEPT !.human_messages = @ + 1, !.turns = @ + 1]
                 ELSE IF CountsAsAssistant(line)
                 THEN LET a1 == [acc EXCEPT !.assistant_messages = @ + 1]
                          a2 == IF line.content.kind = "list"
                                THEN CountBlocks(a1, line.content.blocks) ELSE a1
                      IN IF a2.model = "" THEN [a2 EXCEPT !.model = line.model] ELSE a2
                 ELSE acc
             versioned ==
                 IF counted.claude_code_version = ""
                 THEN [counted EXCEPT !.claude_code_version = line.version]
                 ELSE counted
             usage == UsageOf(line)
         IN IF usage = <<>> THEN versioned
            ELSE [versioned EXCEPT
                     !.tokens.input = @ + UsageGet(usage[1], "input_tokens"),
                     !.tokens.output = @ + UsageGet(usage[1], "output_tokens"),
                     !.tokens.cache_read = @ + UsageGet(usage[1], "cache_read_input_tokens")]

RECURSIVE StatsFold(_, _)
StatsFold(acc, lines) ==
    IF lines = <<>> THEN acc ELSE StatsFold(StatsStep(acc, Head(lines)), Tail(lines))

\* extract_session_stats, with started_at, ended_at as <<>> or <<timestamp>>
extract_session_stats(lines) ==
    [counts |-> StatsFold(EmptyStats, lines),
     started_at |-> StartedAt(lines),
     ended_at |-> EndedAt(lines),
     duration_minutes |-> DurationMinutes(lines)]

(***************************************************************************)
(* Cost estimate.  Prices are in tenths of a dollar per million tokens     *)
(* (3.00, 15.00 and 0.30 dollars) and costs in units of 0.0001 dollar, so  *)
(* that the arithmetic is on integers.                                     *)
(***************************************************************************)
INPUT_PRICE_PER_M == 30

OUTPUT_PRICE_PER_M == 150

CACHE_PRICE_PER_M == 3

\* lines 456-460 in units of 10^-7 dollar, exactly
ExactCost(tokens) ==
    tokens.input * INPUT_PRICE_PER_M + tokens.output * OUTPUT_PRICE_PER_M
        + tokens.cache_read * CACHE_PRICE_PER_M

\* the number of 10^-7 dollars in 0.0001 dollar
CostUnit == 1000

\* a variant that cuts the decimals off
estimate_cost_Truncate(tokens, tie_up) == ExactCost(tokens) \div CostUnit

\* round(cost, 4): the nearest multiple of 0.0001.  The sum is a binary float,
\* which at an exact decimal tie lies on one side or the other of it, so the
\* direction a tie takes is the input tie_up
estimate_cost(tokens, tie_up) ==
    LET n == ExactCost(tokens)
        q == n \div CostUnit
        r == n % CostUnit
    IN IF 2 * r < CostUnit THEN q
       ELSE IF 2 * r > CostUnit THEN q + 1
       ELSE IF tie_up THEN q + 1 ELSE q

(***************************************************************************)
(* Relationship hints (detect_relationship_hints)                          *)
(***************************************************************************)
HexChars == Range(DigitChars) \cup {"a","b","c","d","e","f"} \cup {"A","B","C","D","E","F"}

\* the length of a UUID: groups of 8, 4, 4, 4 and 12 hex digits and 4 hyphens
UuidLen == 36

\* the offsets of the hyphens in a UUID
UuidHyphens == {8, 13, 18, 23}

\* \b at the left of position i of text (i = Len(text) + 1: at the end)
WordBoundary(text, i) ==
    LET before == i > 1 /\ IsWordChar(text[i - 1])
        after == i <= Len(text) /\ IsWordChar(text[i])
    IN before # after

\* uuid_pattern (re.IGNORECASE) matches at position i of text
uuid_pattern(text, i) ==
    /\ i + UuidLen - 1 <= Len(text)
    /\ \A k \in 0..(UuidLen - 1) :
           IF k \in UuidHyphens THEN text[i + k] = "-" ELSE text[i + k] \in HexChars
    /\ WordBoundary(text, i)
    /\ WordBoundary(text, i + UuidLen)

\* uuid_pattern.finditer(text) from position i: the matches, left to right
RECURSIVE finditer(_, _)
finditer(text, i) ==
    IF i + UuidLen - 1 > Len(text) THEN <<>>
    ELSE IF uuid_pattern(text, i)
    THEN <<SubSeq(text, i, i + UuidLen - 1)>> \o finditer(text, i + UuidLen)
    ELSE finditer(text, i + 1)

\* continuation_patterns: each pattern as the word sequences it matches, the
\* words being separated by \s+
continuation_patterns ==
    << {<<<<"c","o","n","t","i","n","u","e">>, <<"f","r","o","m">>>>,
        <<<<"c","o","n","t","i","n","u","i","n","g">>, <<"f","r","o","m">>>>,
        <<<<"c","o","n","t","i","n","u","e","d">>, <<"f","r","o","m">>>>},
       {<<<<"p","i","c","k">>, <<"u","p">>, <<"w","h","e","r","e">>>>,
        <<<<"p","i","c","k","i","n","g">>, <<"u","p">>, <<"w","h","e","r","e">>>>,
        <<<<"p","i","c","k">>, <<"u","p">>, <<"f","r","o","m">>, <<"w","h","e","r","e">>>>,
        <<<<"p","i","c","k","i","n","g">>, <<"u","p">>, <<"f","r","o","m">>, <<"w","h","e","r","e">>>>},
       {<<<<"p","r","e","v","i","o","u","s">>, <<"s","e","s","s","i","o","n">>>>},
       {<<<<"l","a","s","t">>, <<"s","e","s","s","i","o","n">>>>},
       {<<<<"e","a","r","l","i","e","r">>, <<"s","e","s","s","i","o","n">>>>,
        <<<<"e","a","r","l","i","e","r">>, <<"c","o","n","v","e","r","s","a","t","i","o","n">>>>} >>

\* the words match the lower-case text at position i, with \s+ between them
RECURSIVE MatchWords(_, _, _)
MatchWords(text, i, words) ==
    LET w == Head(words)
        end == i + Len(w)
        spaces == {j \in end..Len(text) : \A k \in end..j : IsSpace(text[k])}
    IN /\ end - 1 <= Len(text)
       /\ SubSeq(text, i, end - 1) = w
       /\ \/ Len(words) = 1
          \/ /\ spaces # {}
             /\ MatchWords(text, end + Cardinality(spaces), Tail(words))

\* re.search(pattern, text, re.IGNORECASE) for the pattern of that index, on
\* the text in lower case
SearchContinuation(lower, pattern) ==
    \E words \in continuation_patterns[pattern] :
        \E i \in 1..Len(lower) : lower[i] = words[1][1] /\ MatchWords(lower, i, words)

\* " ".join(parts)
RECURSIVE JoinSpace(_)
JoinSpace(parts) ==
    IF parts = <<>> THEN <<>>
    ELSE IF Len(parts) = 1 THEN parts[1]
    ELSE parts[1] \o <<" ">> \o JoinSpace(Tail(parts))

\* lines 583-589: the text of a message: its string content, or the texts of
\* its text blocks joined by a space
MessageText(line) ==
    IF line.content.kind = "list"
    THEN LET texts == SelectSeq(line.content.blocks, LAMBDA b : b.type = "text")
         IN JoinSpace([i \in DOMAIN texts |-> texts[i].text])
    ELSE line.content.text

NoHints == [continues_hint |-> <<>>, references_hints |-> <<>>, detection_notes |-> <<>>]

\* a variant that appends every match
AddReference_NoDedup(h, uuid_str) ==
    [h EXCEPT !.references_hints = Append(@, uuid_str),
              !.detection_notes = Append(@, [found |-> "session ID reference", of |-> uuid_str])]

\* lines 597-599: one match of uuid_pattern
AddReference(h, uuid_str) ==
    IF \E i \in DOMAIN h.references_hints : h.references_hints[i] = uuid_str THEN h
    ELSE [h EXCEPT !.references_hints = Append(@, uuid_str),
                   !.detection_notes = Append(@, [found |-> "session ID reference", of |-> uuid_str])]

RECURSIVE AddReferences(_, _)
AddReferences(h, matches) ==
    IF matches = <<>> THEN h ELSE AddReferences(AddReference(h, Head(matches)), Tail(matches))

\* lines 602-606: the continuation patterns from index pattern on
RECURSIVE AddContinuations(_, _, _)
AddContinuations(h, lower, pattern) ==
    IF pattern > Len(continuation_patterns) THEN h
    ELSE AddContinuations(
             IF SearchContinuation(lower, pattern)
             THEN [h EXCEPT !.detection_notes =
                       Append(@, [found |-> "continuation language", of |-> pattern])]
             ELSE h,
             lower, pattern + 1)

\* lines 567-606: one line of the loop
HintsStep(h, line) ==
    IF ~IsUserEntry(line) THEN h
    ELSE LET msg_content == MessageText(line)
         IN AddContinuations(AddReferences(h, finditer(msg_content, 1)),
                             LowerStr(msg_content), 1)

RECURSIVE HintsFold(_, _)
HintsFold(h, lines) ==
    IF lines = <<>> THEN h ELSE HintsFold(HintsStep(h, Head(lines)), Tail(lines))

detect_relationship_hints(lines) == HintsFold(NoHints, lines)

(***************************************************************************)
(* Catalog/manifest store.  A persisted file is absent, ok (parseable,     *)
(* with its data) or corrupt (present, not parseable).                     *)
(***************************************************************************)
EmptyCatalog == [sessions |-> <<>>, total_sessions |-> 0, needs_review_count |-> 0]

AbsentCatalog == [status |-> "absent", data |-> EmptyCatalog]

AbsentManifest == [status |-> "absent", data |-> <<>>]

\* load_manifest; the caller handles status = "corrupt", where json.loads raises
load_manifest(file) == IF file.status = "ok" THEN file.data ELSE <<>>

save_manifest(m) == [status |-> "ok", data |-> m]

load_catalog(file) == IF file.status = "ok" THEN file.data ELSE EmptyCatalog

save_catalog(c) ==
    [status |-> "ok",
     data |-> [sessions |-> c.sessions,
               total_sessions |-> Len(c.sessions),
               needs_review_count |->
                   Cardinality({i \in DOMAIN c.sessions : c.sessions[i].needs_review})]]

\* key=lambda s: s.get("started_at") or ""
SortKey(e) == IF e.started_at = <<>> THEN <<>> ELSE e.started_at[1]

\* one step of the stable descending sort: e goes after every element whose key
\* is not smaller than its own
InsertDesc(sorted, e) ==
    LET k == Cardinality({i \in DOMAIN sorted : ~StrLess(SortKey(sorted[i]), SortKey(e))})
    IN SubSeq(sorted, 1, k) \o <<e>> \o SubSeq(sorted, k + 1, Len(sorted))

\* a variant that leaves the order as it is
SortDesc_Unsorted(s) == s

\* list.sort(key=..., reverse=True)
RECURSIVE SortDesc(_)
SortDesc(s) ==
    IF s = <<>> THEN <<>>
    ELSE InsertDesc(SortDesc(SubSeq(s, 1, Len(s) - 1)), s[Len(s)])

\* a variant that stores the title where the directory name belongs
CatalogEntry_TitleAsDirectory(metadata) ==
    [id |-> metadata.id,
     directory |-> metadata.title,
     title |-> metadata.title,
     started_at |-> metadata.started_at,
     needs_review |-> metadata.needs_review]

CatalogEntry(metadata) ==
    [id |-> metadata.id,
     directory |-> metadata.directory_name,
     title |-> metadata.title,
     started_at |-> metadata.started_at,
     needs_review |-> metadata.needs_review]

\* a variant that appends without looking for the id
update_catalog_AlwaysAppend(file, metadata) ==
    LET c == load_catalog(file)
    IN save_catalog([c EXCEPT !.sessions = SortDesc(Append(c.sessions, CatalogEntry(metadata)))])

update_catalog(file, metadata) ==
    LET c == load_catalog(file)
        new_entry == CatalogEntry(metadata)
        existing == {i \in DOMAIN c.sessions : c.sessions[i].id = metadata.id}
        updated == IF existing # {}
                   THEN [c.sessions EXCEPT
                            ![CHOOSE i \in existing : \A j \in existing : j <= i] = new_entry]
                   ELSE Append(c.sessions, new_entry)
    IN save_catalog([c EXCEPT !.sessions = SortDesc(updated)])

(***************************************************************************)
(* Archive orchestrator                                                    *)
(***************************************************************************)
\* a transcript file: absent, or its lines
NoTranscript == [exists |-> FALSE, lines |-> <<>>]

TranscriptFile(lines) == [exists |-> TRUE, lines |-> lines]

\* a variant that tests content instead of content.strip()
IsWhitespaceOnly_EmptyOnly(lines) == lines = <<>>

\* not content.strip(): every line of the file is whitespace
IsWhitespaceOnly(lines) == \A i \in DOMAIN lines : lines[i].kind = "blank"

RECURSIVE SumLen(_)
SumLen(seqs) == IF seqs = <<>> THEN 0 ELSE Len(Head(seqs)) + SumLen(Tail(seqs))

\* the bytes one line takes in the file: its newline and the characters of its values
LineBytes(line) ==
    1 + Len(line.type) + Len(line.role) + SumLen(line.timestamp) + Len(line.content.text)
      + SumLen([j \in DOMAIN line.content.blocks |->
                    line.content.blocks[j].text \o line.content.blocks[j].file_path])

\* transcript_path.stat().st_size
RECURSIVE Bytes(_)
Bytes(lines) == IF lines = <<>> THEN 0 ELSE LineBytes(Head(lines)) + Bytes(Tail(lines))

\* a session directory and the files the orchestrator keeps in it
EmptyDir ==
    [meta |-> <<>>, title |-> <<>>, last_size |-> <<>>, raw |-> <<>>,
     html |-> FALSE, md |-> FALSE, pdf |-> FALSE]

EmptyThreePs == [prompt_summary |-> "", process_summary |-> "", provenance_summary |-> ""]

\* a variant that ignores the summary
NeedsReview_Always(three_ps) == TRUE

\* line 1348: three_ps is None
NeedsReview(three_ps) == three_ps = <<>>

\* create_session_metadata, the fields the catalog and the markers depend on;
\* a supplied three_ps is the non-empty dict main builds, so `three_ps or {...}`
\* keeps it
create_session_metadata(session_id, lines, t, directory_name, three_ps, needs_review) ==
    [id |-> session_id,
     started_at |-> StartedAt(lines),
     title |-> t,
     three_ps |-> IF three_ps # <<>> THEN three_ps[1] ELSE EmptyThreePs,
     directory_name |-> directory_name,
     jsonl_bytes |-> Bytes(lines),
     needs_review |-> needs_review]

\* datetime.now().strftime("%Y-%m-%d")
DateStr(day) == <<"2","0","2","6","-","0","1","-","0", DigitChars[day + 1]>>

SessionPrefixLen == 8

\* lines 1287-1289
NewDirectoryName(t, session_id, day) ==
    LET safe_title == sanitize_filename(t)
    IN DateStr(day) \o <<"-">>
       \o (IF safe_title # <<>> THEN safe_title ELSE Take(session_id, SessionPrefixLen))

\* a variant that compares the sizes with < instead of ==
IsUnchanged_SmallerOnly(dirs, existing_dir, force, force_retitle, current_size) ==
    /\ existing_dir # <<>>
    /\ ~force_retitle
    /\ ~force
    /\ existing_dir[1] \in DOMAIN dirs
    /\ dirs[existing_dir[1]].last_size # <<>>
    /\ current_size < dirs[existing_dir[1]].last_size[1]

\* lines 1265-1273: the call returns without changes
IsUnchanged(dirs, existing_dir, force, force_retitle, current_size) ==
    /\ existing_dir # <<>>
    /\ ~force_retitle
    /\ ~force
    /\ existing_dir[1] \in DOMAIN dirs
    /\ dirs[existing_dir[1]].last_size # <<>>
    /\ current_size = dirs[existing_dir[1]].last_size[1]

\* a variant that does not read .title
ChooseTitle_Regenerate(dirs, provided_title, output_dir, lines) ==
    IF provided_title # <<>> /\ provided_title[1] # <<>> THEN provided_title[1]
    ELSE generate_title_from_content(lines)

\* lines 1278-1283; output_dir is <<>> unless line 1266 set it
ChooseTitle(dirs, provided_title, output_dir, lines) ==
    IF provided_title # <<>> /\ provided_title[1] # <<>> THEN provided_title[1]
    ELSE IF output_dir # <<>> /\ output_dir[1] \in DOMAIN dirs
            /\ dirs[output_dir[1]].title # <<>>
         THEN Strip(dirs[output_dir[1]].title[1])
    ELSE generate_title_from_content(lines)

DirIsEmpty(d) == d = EmptyDir

\* Path.rename of a directory: onto itself nothing happens, an empty target
\* directory is replaced, a non-empty one makes rename raise OSError
RenameRaises(dirs, from, to) ==
    from # to /\ to \in DOMAIN dirs /\ ~DirIsEmpty(dirs[to])

Rename(dirs, from, to) ==
    IF from = to THEN dirs
    ELSE [d \in (DOMAIN dirs \ {from}) \cup {to} |-> IF d = to THEN dirs[from] ELSE dirs[d]]

\* output_dir.mkdir(parents=True, exist_ok=True)
Mkdir(dirs, d) ==
    IF d \in DOMAIN dirs THEN dirs
    ELSE [x \in DOMAIN dirs \cup {d} |-> IF x = d THEN EmptyDir ELSE dirs[x]]

\* "a" in text
RECURSIVE Contains(_, _)
Contains(text, sub) ==
    IF Len(text) < Len(sub) THEN FALSE
    ELSE IsPrefix(sub, text) \/ Contains(Tail(text), sub)

\* "\n".join(text_parts)
RECURSIVE JoinLines(_)
JoinLines(parts) ==
    IF parts = <<>> THEN <<>>
    ELSE IF Len(parts) = 1 THEN parts[1]
    ELSE parts[1] \o <<"\n">> \o JoinLines(Tail(parts))

TextParts(line) ==
    IF line.content.kind = "str" THEN <<line.content.text>>
    ELSE LET bs == SelectSeq(line.content.blocks, LAMBDA b : b.type = "text")
         IN [j \in DOMAIN bs |-> bs[j].text]

\* extract_conversation_messages(content) is not empty (lines 910-986)
HasConversationMessage(line) ==
    /\ line.kind = "entry"
    /\ line.type # <<"file-history-snapshot">>
    /\ LET role == IF line.role # <<>> THEN line.role ELSE line.type
       IN IF role = <<"user">> \/ line.type = <<"user">>
          THEN LET text == Strip(JoinLines(TextParts(line))) IN
               /\ text # <<>>
               /\ ~IsPrefix(<<"<","s","y","s","t","e","m","-","r","e","m","i","n","d","e","r",">">>, text)
               /\ ~IsPrefix(<<"<","i","d","e","_">>, text)
               /\ ~(IsPrefix(<<"#"," ">>, text) /\ Len(text) > 500)
               /\ ~Contains(text, <<"<","c","o","m","m","a","n","d","-","n","a","m","e",">">>)
               /\ ~Contains(text, <<"<","c","o","m","m","a","n","d","-","m","e","s","s","a","g","e",">">>)
               /\ ~Contains(text, <<"B","a","s","e"," ","d","i","r","e","c","t","o","r","y"," ","f","o","r"," ","t","h","i","s"," ","s","k","i","l","l",":">>)
               /\ ~IsPrefix(<<"L","a","u","n","c","h","i","n","g"," ","s","k","i","l","l",":">>, text)
          ELSE IF role = <<"assistant">> \/ line.type = <<"assistant">>
          THEN /\ line.content.kind = "list"
               /\ \/ Strip(JoinLines(TextParts(line))) # <<>>
                  \/ \E j \in DOMAIN line.content.blocks : line.content.blocks[j].type = "tool_use"
          ELSE FALSE

HasConversation(lines) == \E i \in DOMAIN lines : HasConversationMessage(lines[i])

\* what a call that changes nothing returns
\* a variant in which a missing renderer is not caught
RunRenderer_MissingUncaught(renderer) ==
    [html |-> renderer = "ok", errors |-> IF renderer = "fail" THEN 1 ELSE 0,
     raised |-> renderer = "missing"]

\* lines 1320-1341: the renderer is run; whether it wrote index.html, the
\* number of log_error calls, and whether an exception leaves the try statement
RunRenderer(renderer) ==
    [html |-> renderer = "ok", errors |-> IF renderer = "ok" THEN 0 ELSE 1, raised |-> FALSE]

\* generate_conversation_pdf: TRUE when pandoc wrote the PDF; a non-zero exit,
\* a timeout and a missing binary are caught and give FALSE
generate_conversation_pdf(pandoc) == pandoc = "ok"

NoChange(path, errors) ==
    [manifest |-> manifest, catalog |-> catalog, fs |-> fs, sidecar |-> sidecar,
     path |-> path, result |-> <<>>, errors |-> errors, written |-> {}]

\* archive() (lines 1236-1400) from the current state: the persisted state it
\* leaves, the value it returns (<<>> for None), the path it took, the number
\* of log_error calls and the files it wrote.
\*   renderer: "ok", "fail" or "missing" (claude-code-transcripts);
\*   pandoc: "ok", "fail", "timeout" or "missing";
\*   sidecar_ok: FALSE when writing next to the transcript raises PermissionError
archive(session_id, force, force_retitle, provided_title, three_ps, renderer, pandoc, sidecar_ok) ==
    LET tr == transcripts[session_id] IN
    IF ~tr.exists THEN NoChange("missing", 1)
    ELSE IF IsWhitespaceOnly(tr.lines) THEN NoChange("empty", 1)
    ELSE IF manifest.status = "corrupt" THEN NoChange("raised", 0)
    ELSE
    LET m == load_manifest(manifest)
        existing_dir == IF session_id \in DOMAIN m THEN <<m[session_id]>> ELSE <<>>
        current_size == Bytes(tr.lines)
        output_dir0 == IF existing_dir # <<>> /\ ~force_retitle /\ ~force
                       THEN existing_dir ELSE <<>>
    IN
    IF IsUnchanged(fs, existing_dir, force, force_retitle, current_size)
    THEN NoChange("unchanged", 0)
    ELSE
    LET t == ChooseTitle(fs, provided_title, output_dir0, tr.lines)
        fresh_name == output_dir0 = <<>> \/ force_retitle
        directory_name == IF fresh_name THEN NewDirectoryName(t, session_id, today)
                          ELSE output_dir0[1]
        renames == /\ fresh_name /\ existing_dir # <<>> /\ force_retitle
                   /\ existing_dir[1] \in DOMAIN fs
    IN
    IF renames /\ RenameRaises(fs, existing_dir[1], directory_name)
    THEN NoChange("raised", 0)
    ELSE
    LET fs1 == IF renames THEN Rename(fs, existing_dir[1], directory_name) ELSE fs
        manifest1 == save_manifest(
            [s \in DOMAIN m \cup {session_id} |->
                IF s = session_id THEN directory_name ELSE m[s]])
        fs2 == Mkdir(fs1, directory_name)
        needs_review == NeedsReview(three_ps)
        metadata == create_session_metadata(session_id, tr.lines, t, directory_name,
                                            three_ps, needs_review)
        exports == three_ps # <<>> /\ HasConversation(tr.lines)
        rendered == RunRenderer(renderer)
        pdf == exports /\ generate_conversation_pdf(pandoc)
        dir == [fs2[directory_name] EXCEPT
                   !.html = @ \/ rendered.html,
                   !.meta = <<metadata>>,
                   !.md = @ \/ exports,
                   !.pdf = @ \/ pdf,
                   !.title = <<t>>,
                   !.last_size = <<current_size>>,
                   !.raw = <<tr.lines>>]
        files == {"session.meta.json", ".title", ".last_size", "raw-transcript.jsonl"}
                 \cup (IF rendered.html THEN {"index.html"} ELSE {})
                 \cup (IF exports THEN {"conversation.md"} ELSE {})
                 \cup (IF pdf THEN {"conversation.pdf"} ELSE {})
    IN IF rendered.raised
       THEN [manifest |-> manifest1, catalog |-> catalog, fs |-> fs2, sidecar |-> sidecar,
             path |-> "raised", result |-> <<>>, errors |-> rendered.errors, written |-> {}]
       ELSE
       [manifest |-> manifest1,
        catalog |-> update_catalog(catalog, metadata),
        fs |-> [fs2 EXCEPT ![directory_name] = dir],
        sidecar |-> IF sidecar_ok THEN [sidecar EXCEPT ![session_id] = <<metadata>>]
                    ELSE sidecar,
        path |-> "full",
        result |-> <<directory_name>>,
        errors |-> rendered.errors,
        written |-> {<<directory_name, f>> : f \in files}]

(***************************************************************************)
(* Bounds and the inputs the specifications draw from                      *)
(***************************************************************************)
\* the longest transcript the scan specifications build, in lines
MaxLines == 3

\* the number of steps (archive calls, transcript writes, midnights) of Spec
MaxSteps == 3

\* the last day the clock reaches
MaxDay == 2

SessionA == <<"s","1">>

SessionB == <<"s","2">>

SessionC == <<"s","3">>

SessionIds == {SessionA, SessionB}

TextFix == <<"H","e","l","l","o"," ","f","i","x"," ","i","t"," ","n","o","w",".">>

TextFixOther == <<"H","e","l","l","o"," ","f","i","x"," ","i","t"," ","n","o","t",".">>

TextDone == <<"D","o","n","e",","," ","s","e","e"," ","t","h","e"," ","d","i","f","f",".">>

TimeEarly == <<"1","0",":","0","0">>

TimeLate == <<"1","0",":","0","5">>

UserLine(text, timestamp) == Entry(<<"user">>, <<"user">>, timestamp, ListContent(<<TextBlock(text)>>))

AssistantLine(blocks, timestamp) == Entry(<<"assistant">>, <<"assistant">>, timestamp, ListContent(blocks))

\* a transcript, one of the same size with another text, and the first one grown
LinesFix == <<UserLine(TextFix, <<TimeLate>>)>>

LinesFixOther == <<UserLine(TextFixOther, <<TimeLate>>)>>

LinesGrown == LinesFix \o <<AssistantLine(<<TextBlock(TextDone)>>, <<TimeEarly>>)>>

TranscriptPool ==
    {NoTranscript, TranscriptFile(<<BlankLine>>), TranscriptFile(LinesFix),
     TranscriptFile(LinesFixOther), TranscriptFile(LinesGrown)}

\* provided_title: none, a title whose slug is that of the title generated from
\* LinesFix, and a title without a word character
TitleFix == <<"F","i","x"," ","i","t"," ","n","o","w","!">>

TitleMarks == <<"?","!">>

ProvidedTitles == {<<>>, <<TitleFix>>, <<TitleMarks>>}

ThreePsPool ==
    {<<>>, <<[prompt_summary |-> "p", process_summary |-> "q", provenance_summary |-> "r"]>>}

Environments ==
    {[renderer |-> "ok", pandoc |-> "ok", sidecar_ok |-> TRUE],
     [renderer |-> "missing", pandoc |-> "missing", sidecar_ok |-> FALSE],
     [renderer |-> "fail", pandoc |-> "timeout", sidecar_ok |-> TRUE]}

NoCall ==
    [op |-> "none", session_id |-> <<>>, force |-> FALSE, force_retitle |-> FALSE,
     provided_title |-> <<>>, three_ps |-> <<>>, path |-> "none", result |-> <<>>,
     errors |-> 0, written |-> {}, before |-> <<>>, before_title |-> <<>>,
     before_exists |-> FALSE, was_current |-> FALSE]

NoTokens == [input |-> 0, output |-> 0, cache_read |-> 0]

\* two token totals whose costs are not estimated yet
Unestimated(a, b) == [a |-> a, b |-> b, cost_a |-> <<>>, cost_b |-> <<>>, cost_merged |-> <<>>]

NoCosts == Unestimated(NoTokens, NoTokens)

\* the processes that call archive on the archive root
Procs == {1, 2}

\* a process that is not in a call of archive, and the locals of a call
Idle ==
    [pc |-> "idle", session_id |-> <<>>, force |-> FALSE, force_retitle |-> FALSE,
     content |-> <<>>, m |-> <<>>, existing_dir |-> <<>>, marker_exists |-> FALSE,
     title |-> <<>>, directory_name |-> <<>>, metadata |-> <<>>, c |-> EmptyCatalog,
     wrote |-> {}]

NoCalls == [p \in Procs |-> Idle]

\* nobody saved the manifest or the catalog yet
NoWriters == [manifest |-> 0, catalog |-> 0]

\* the scan variables, where a specification does not use them
ScanIdle ==
    /\ content = <<>>
    /\ project_dir = <<>>
    /\ title = UntitledSession
    /\ artifacts = extract_artifacts(<<>>, <<>>)
    /\ stats = extract_session_stats(<<>>)
    /\ costs = NoCosts
    /\ hints = NoHints

\* the archive variables of an empty archive
ArchiveEmpty ==
    /\ manifest = AbsentManifest
    /\ catalog = AbsentCatalog
    /\ fs = <<>>
    /\ sidecar = [s \in SessionIds |-> <<>>]
    /\ today = 1
    /\ last = NoCall
    /\ steps = 0
    /\ calls = NoCalls
    /\ writers = NoWriters

ArchiveIdle ==
    /\ ArchiveEmpty
    /\ transcripts = [s \in SessionIds |-> NoTranscript]
    /\ env = [renderer |-> "ok", pandoc |-> "ok", sidecar_ok |-> TRUE]

ScanVars == <<content, project_dir, title, artifacts, stats, costs, hints>>

ArchiveVars == <<manifest, catalog, fs, transcripts, sidecar, today, env, last, steps, calls, writers>>

(***************************************************************************)
(* Spec: the archive orchestrator on one archive root                      *)
(***************************************************************************)
Init ==
    /\ ScanIdle
    /\ ArchiveEmpty
    /\ transcripts \in [SessionIds -> TranscriptPool]
    /\ transcripts[SessionB] = TranscriptFile(LinesFix)
    /\ env \in Environments

\* one call of archive()
Archive(session_id, force, force_retitle, provided_title, three_ps) ==
    /\ steps < MaxSteps
    /\ \E o \in {archive(session_id, force, force_retitle, provided_title, three_ps,
                         env.renderer, env.pandoc, env.sidecar_ok)} :
       LET m == load_manifest(manifest)
           before == IF manifest.status = "ok" /\ session_id \in DOMAIN m
                     THEN <<m[session_id]>> ELSE <<>>
           held == before # <<>> /\ before[1] \in DOMAIN fs
       IN /\ manifest' = o.manifest
          /\ catalog' = o.catalog
          /\ fs' = o.fs
          /\ sidecar' = o.sidecar
          /\ last' = [op |-> "archive", session_id |-> session_id, force |-> force,
                      force_retitle |-> force_retitle, provided_title |-> provided_title,
                      three_ps |-> three_ps, path |-> o.path, result |-> o.result,
                      errors |-> o.errors, written |-> o.written, before |-> before,
                      before_title |-> IF held THEN fs[before[1]].title ELSE <<>>,
                      before_exists |-> held,
                      was_current |-> /\ held
                                      /\ transcripts[session_id].exists
                                      /\ fs[before[1]].raw = <<transcripts[session_id].lines>>]
    /\ steps' = steps + 1
    /\ UNCHANGED <<transcripts, today, env, calls, writers>>
    /\ UNCHANGED ScanVars

\* the session's transcript file is written, truncated or removed
WriteTranscript(session_id, file) ==
    /\ steps < MaxSteps
    /\ transcripts[session_id] # file
    /\ transcripts' = [transcripts EXCEPT ![session_id] = file]
    /\ last' = [NoCall EXCEPT !.op = "write", !.session_id = session_id]
    /\ steps' = steps + 1
    /\ UNCHANGED <<manifest, catalog, fs, sidecar, today, env, calls, writers>>
    /\ UNCHANGED ScanVars

\* midnight passes
NextDay ==
    /\ steps < MaxSteps
    /\ today < MaxDay
    /\ today' = today + 1
    /\ last' = [NoCall EXCEPT !.op = "day"]
    /\ steps' = steps + 1
    /\ UNCHANGED <<manifest, catalog, fs, transcripts, sidecar, env, calls, writers>>
    /\ UNCHANGED ScanVars

Next ==
    \/ \E s \in SessionIds, force \in BOOLEAN, force_retitle \in BOOLEAN,
          provided_title \in ProvidedTitles, three_ps \in ThreePsPool :
            Archive(s, force, force_retitle, provided_title, three_ps)
    \/ \E file \in TranscriptPool : WriteTranscript(SessionA, file)
    \/ NextDay

Spec == Init /\ [][Next]_vars

(***************************************************************************)
(* SpecTitle: a transcript grows line by line and the title is generated   *)
(* from it                                                                 *)
(***************************************************************************)
TextExample == <<"H","e","l","l","o"," ","c","a","n"," ","y","o","u"," ","f","i","x"," ","t","h","e"," ","b","u","g","?">>

TextIde == <<"<","i","d","e","_","s","e","l","e","c","t","i","o","n",">","a","b","c"," ","d","e","f">>

TextReminder == <<" ","<","S","Y","S","T","E","M","-","R","E","M","I","N","D","E","R",">","b","e"," ","n","i","c","e">>

TextShort == <<"o","k">>

TextMarks == <<"?","!"," ","w","h","a","t"," ","i","s"," ","t","h","i","s">>

TextAuth == <<"I","m","p","l","e","m","e","n","t"," ","a","u","t","h">>

TextTests == <<"P","l","e","a","s","e"," ","a","d","d"," ","t","e","s","t","s"," ","n","o","w">>

TitleLinePool ==
    {UserLine(TextExample, <<>>),
     Entry(<<"user">>, <<"user">>, <<>>, StrContent(TextFix)),
     UserLine(TextIde, <<>>),
     UserLine(TextShort, <<>>),
     UserLine(TextMarks, <<>>),
     Entry(<<"user">>, <<"user">>, <<>>, ListContent(<<ToolResult, TextBlock(TextAuth)>>)),
     Entry(<<"user">>, <<"user">>, <<>>, ListContent(<<TextBlock(TextShort), TextBlock(TextAuth)>>)),
     Entry(<<"user">>, <<"user">>, <<>>, ListContent(<<ToolResult>>)),
     Entry(<<"user">>, <<"user">>, <<>>, NoContent),
     Entry(<<"user">>, <<"assistant">>, <<>>, StrContent(TextTests)),
     Entry(<<>>, <<"user">>, <<>>, StrContent(TextReminder)),
     AssistantLine(<<TextBlock(TextAuth)>>, <<>>),
     BlankLine,
     MalformedLine}

InitTitle ==
    /\ ScanIdle
    /\ ArchiveIdle

\* one more line is in the transcript when generate_title_from_content reads it
ScanTitle(line) ==
    /\ Len(content) < MaxLines
    /\ content' = Append(content, line)
    /\ title' = generate_title_from_content(content')
    /\ UNCHANGED <<project_dir, artifacts, stats, costs, hints>>
    /\ UNCHANGED ArchiveVars

NextTitle == \E line \in TitleLinePool : ScanTitle(line)

SpecTitle == InitTitle /\ [][NextTitle]_vars

(***************************************************************************)
(* SpecArtifacts: a transcript grows line by line and the artifacts are    *)
(* extracted from it, with or without a project root                       *)
(***************************************************************************)
ProjectRoot == <<"/","p">>

PathA == <<"/","p","/","a",".","p","y">>

\* another spelling of PathA
PathAlias == <<"/","p","/",".","/","a",".","p","y">>

PathOutside == <<"/","q","/","b">>

PathPool == {PathA, PathAlias, PathOutside}

ArtifactLinePool ==
    {AssistantLine(<<ToolUse(tool, path)>>, <<>>) : tool \in {"Write", "Edit", "Read"}, path \in PathPool}
    \cup {AssistantLine(<<ToolUse("Bash", PathA)>>, <<>>),
          AssistantLine(<<ToolUse("Write", <<>>)>>, <<>>),
          AssistantLine(<<ToolUse("Write", PathOutside), ToolUse("Read", PathA)>>, <<>>),
          AssistantLine(<<TextBlock(TextDone)>>, <<>>),
          Entry(<<"user">>, <<"user">>, <<>>, ListContent(<<ToolUse("Edit", PathA)>>)),
          Entry(<<"user">>, <<"user">>, <<>>, StrContent(TextFix)),
          MalformedLine}

InitArtifacts ==
    /\ content = <<>>
    /\ project_dir \in {<<>>, <<ProjectRoot>>}
    /\ title = UntitledSession
    /\ artifacts = extract_artifacts(<<>>, project_dir)
    /\ stats = extract_session_stats(<<>>)
    /\ costs = NoCosts
    /\ hints = NoHints
    /\ ArchiveIdle

\* one more line is in the transcript when extract_artifacts reads it
ScanArtifacts(line) ==
    /\ Len(content) < MaxLines
    /\ content' = Append(content, line)
    /\ artifacts' = extract_artifacts(content', project_dir)
    /\ UNCHANGED <<project_dir, title, stats, costs, hints>>
    /\ UNCHANGED ArchiveVars

NextArtifacts == \E line \in ArtifactLinePool : ScanArtifacts(line)

SpecArtifacts == InitArtifacts /\ [][NextArtifacts]_vars

(***************************************************************************)
(* SpecCatalog: update_catalog calls on one archive root                   *)
(***************************************************************************)
CatalogIds == {SessionA, SessionB, SessionC}

StartedAtPool == {<<>>, <<TimeEarly>>, <<TimeLate>>}

\* the metadata fields update_catalog reads
CatalogMetadata(session_id, started_at, needs_review) ==
    [id |-> session_id,
     started_at |-> started_at,
     title |-> UntitledSession,
     directory_name |-> DateStr(1) \o <<"-">> \o session_id,
     needs_review |-> needs_review]

InitCatalog ==
    /\ ScanIdle
    /\ ArchiveIdle

UpdateCatalog(session_id, started_at, needs_review) ==
    /\ catalog' = update_catalog(catalog, CatalogMetadata(session_id, started_at, needs_review))
    /\ last' = [NoCall EXCEPT
                   !.op = "update_catalog",
                   !.session_id = session_id,
                   !.path = IF \E i \in DOMAIN load_catalog(catalog).sessions :
                                   load_catalog(catalog).sessions[i].id = session_id
                            THEN "replaced" ELSE "appended"]
    /\ UNCHANGED <<manifest, fs, transcripts, sidecar, today, env, steps, calls, writers>>
    /\ UNCHANGED ScanVars

NextCatalog ==
    \E s \in CatalogIds, started_at \in StartedAtPool, needs_review \in BOOLEAN :
        UpdateCatalog(s, started_at, needs_review)

SpecCatalog == InitCatalog /\ [][NextCatalog]_vars

(***************************************************************************)
(* SpecFaults: the archive orchestrator with failing external tools and    *)
(* with persisted files that cannot be parsed                              *)
(***************************************************************************)
ToolOutcomes ==
    [renderer : {"ok", "fail", "missing"}, pandoc : {"ok", "fail", "timeout", "missing"},
     sidecar_ok : BOOLEAN]

InitFaults ==
    /\ ScanIdle
    /\ ArchiveEmpty
    /\ transcripts = [s \in SessionIds |-> IF s = SessionA THEN TranscriptFile(LinesGrown)
                                           ELSE TranscriptFile(LinesFix)]
    /\ env \in ToolOutcomes

\* .session_manifest.json is overwritten with text that is no JSON
CorruptManifest ==
    /\ steps < MaxSteps
    /\ manifest.status = "ok"
    /\ manifest' = [status |-> "corrupt", data |-> <<>>]
    /\ last' = [NoCall EXCEPT !.op = "corrupt_manifest"]
    /\ steps' = steps + 1
    /\ UNCHANGED <<catalog, fs, transcripts, sidecar, today, env, calls, writers>>
    /\ UNCHANGED ScanVars

\* CATALOG.json is overwritten with text that is no JSON
CorruptCatalog ==
    /\ steps < MaxSteps
    /\ catalog.status = "ok"
    /\ catalog' = [status |-> "corrupt", data |-> EmptyCatalog]
    /\ last' = [NoCall EXCEPT !.op = "corrupt_catalog"]
    /\ steps' = steps + 1
    /\ UNCHANGED <<manifest, fs, transcripts, sidecar, today, env, calls, writers>>
    /\ UNCHANGED ScanVars

NextFaults ==
    \/ \E s \in SessionIds, force \in BOOLEAN, three_ps \in ThreePsPool :
            Archive(s, force, FALSE, <<>>, three_ps)
    \/ CorruptManifest
    \/ CorruptCatalog

SpecFaults == InitFaults /\ [][NextFaults]_vars

(***************************************************************************)
(* SpecStats: a transcript grows line by line and the statistics are       *)
(* extracted from it                                                       *)
(***************************************************************************)
TimeA == <<"1","0",":","0","0",":","3","0","Z">>

TimeB == <<"1","0",":","0","2",":","2","9","Z">>

TimeSnapshot == <<"0","9",":","0","0",":","0","0","Z">>

TimeWest == <<"1","0",":","0","0",":","0","0","-","0","5",":","0","0">>

TimeUtc == <<"1","1",":","0","0",":","0","0","Z">>

TimeBad == <<"b","a","d">>

StatsLinePool ==
    {Event(<<"user">>, <<"user">>, <<TimeA>>, StrContent(TextFix), <<>>, <<>>, "", ""),
     Event(<<"assistant">>, <<"assistant">>, <<TimeB>>,
           ListContent(<<Thinking, ToolUse("Write", PathA), TextBlock(TextDone)>>),
           <<[input_tokens |-> 5, output_tokens |-> 7]>>, <<>>, "m1", "v1"),
     Event(<<"user">>, <<"assistant">>, <<>>, StrContent(TextTests), <<>>, <<>>, "", ""),
     Event(<<"assistant">>, <<"system">>, <<>>, ListContent(<<ToolUse("", <<>>)>>), <<>>, <<>>, "m2", ""),
     Event(<<"assistant">>, <<"user">>, <<>>, StrContent(TextFix), <<>>, <<>>, "", ""),
     Event(SnapshotType, <<>>, <<TimeSnapshot>>, NoContent,
           <<[input_tokens |-> 3]>>, <<>>, "", "v0"),
     Event(SnapshotType, <<>>, <<>>, NoContent, <<>>, <<>>, "", ""),
     Event(<<"assistant">>, <<"assistant">>, <<>>, ListContent(<<TextBlock(TextDone)>>),
           <<>>, <<[input_tokens |-> 11, output_tokens |-> 13]>>, "", ""),
     Event(<<"system">>, <<>>, <<TimeWest>>, NoContent,
           <<[cache_read_input_tokens |-> 2]>>, <<>>, "", "v2"),
     Event(<<"user">>, <<"user">>, <<TimeUtc>>, StrContent(TextFix), <<>>, <<>>, "", ""),
     Event(<<"user">>, <<"user">>, <<TimeBad>>, StrContent(TextFix), <<>>, <<>>, "", ""),
     Event(<<"user">>, <<"user">>, <<TimeEarly>>, StrContent(TextFix), <<>>, <<>>, "", ""),
     BlankLine,
     MalformedLine}

InitStats ==
    /\ ScanIdle
    /\ ArchiveIdle

\* one more line is in the transcript when extract_session_stats reads it
ScanStats(line) ==
    /\ Len(content) < MaxLines
    /\ content' = Append(content, line)
    /\ stats' = extract_session_stats(content')
    /\ UNCHANGED <<project_dir, title, artifacts, costs, hints>>
    /\ UNCHANGED ArchiveVars

NextStats == \E line \in StatsLinePool : ScanStats(line)

SpecStats == InitStats /\ [][NextStats]_vars

(***************************************************************************)
(* SpecCost: estimate_cost of two token totals and of their sum            *)
(***************************************************************************)
Million == 1000000

TokenCounts == {0, 50, 60, Million}

TokenPool == [input : TokenCounts, output : TokenCounts, cache_read : TokenCounts]

\* the totals of two sessions taken together
MergeTokens(a, b) ==
    [input |-> a.input + b.input, output |-> a.output + b.output,
     cache_read |-> a.cache_read + b.cache_read]

InitCost ==
    /\ content = <<>>
    /\ project_dir = <<>>
    /\ title = UntitledSession
    /\ artifacts = extract_artifacts(<<>>, <<>>)
    /\ stats = extract_session_stats(<<>>)
    /\ hints = NoHints
    /\ \E a \in TokenPool, b \in TokenPool : costs = Unestimated(a, b)
    /\ ArchiveIdle

\* estimate_cost of each of the two totals and of their sum
EstimateCost(tie_a, tie_b, tie_merged) ==
    /\ costs.cost_a = <<>>
    /\ costs' = [costs EXCEPT
                     !.cost_a = <<estimate_cost(costs.a, tie_a)>>,
                     !.cost_b = <<estimate_cost(costs.b, tie_b)>>,
                     !.cost_merged = <<estimate_cost(MergeTokens(costs.a, costs.b), tie_merged)>>]
    /\ UNCHANGED <<content, project_dir, title, artifacts, stats, hints>>
    /\ UNCHANGED ArchiveVars

NextCost ==
    \E tie_a \in BOOLEAN, tie_b \in BOOLEAN, tie_merged \in BOOLEAN :
        EstimateCost(tie_a, tie_b, tie_merged)

SpecCost == InitCost /\ [][NextCost]_vars

(***************************************************************************)
(* SpecHints: a transcript grows line by line and the relationship hints   *)
(* are detected in it                                                      *)
(***************************************************************************)
UuidA == <<"a","b","c","1","2","3","4","5","-","1","2","3","4","-","1","2","3","4","-","1","2","3","4","-","1","2","3","4","5","6","7","8","9","a","b","c">>

UuidB == <<"0","0","0","0","0","0","0","0","-","0","0","0","0","-","0","0","0","0","-","0","0","0","0","-","0","0","0","0","0","0","0","0","0","0","0","b">>

UuidUpper == <<"A","B","C","1","2","3","4","5","-","1","2","3","4","-","1","2","3","4","-","1","2","3","4","-","1","2","3","4","5","6","7","8","9","A","B","C">>

TextContinuing == <<"C","o","n","t","i","n","u","i","n","g"," ","f","r","o","m"," ","l","a","s","t"," "," ","s","e","s","s","i","o","n">>

HintLinePool ==
    {UserLine(<<"s","e","e"," ">> \o UuidA \o <<" ","p","l","e","a","s","e">>, <<>>),
     Entry(<<"user">>, <<"user">>, <<>>,
           ListContent(<<TextBlock(UuidB), ToolResult, TextBlock(UuidA)>>)),
     Entry(<<"user">>, <<"user">>, <<>>, StrContent(<<"i","d","_">> \o UuidA)),
     Entry(<<"user">>, <<"user">>, <<>>, StrContent(UuidUpper)),
     UserLine(TextContinuing, <<>>),
     AssistantLine(<<TextBlock(UuidB \o <<" ">> \o TextContinuing)>>, <<>>),
     Entry(<<"user">>, <<"assistant">>, <<>>, StrContent(UuidB)),
     Entry(<<"system">>, <<>>, <<>>, StrContent(UuidA)),
     BlankLine,
     MalformedLine}

InitHints ==
    /\ ScanIdle
    /\ ArchiveIdle

\* one more line is in the transcript when detect_relationship_hints reads it
ScanHints(line) ==
    /\ Len(content) < MaxLines
    /\ content' = Append(content, line)
    /\ hints' = detect_relationship_hints(content')
    /\ UNCHANGED <<project_dir, title, artifacts, stats, costs>>
    /\ UNCHANGED ArchiveVars

NextHints == \E line \in HintLinePool : ScanHints(line)

SpecHints == InitHints /\ [][NextHints]_vars

(***************************************************************************)
(* SpecInterrupt, SpecConcurrent: archive() statement by statement.  A     *)
(* call reads the transcript and the manifest, decides, and then runs the  *)
(* statements of lines 1299-1398 one at a time; between two of them the    *)
(* process can be killed (SpecInterrupt) or another process can run        *)
(* (SpecConcurrent).                                                       *)
(***************************************************************************)
\* a variant that writes the size marker right after mkdir
Pipeline_MarkerFirst ==
    <<"manifest", "mkdir", "last_size", "html", "meta", "load_catalog", "save_catalog",
      "title", "raw">>

\* lines 1299-1398: the statements that change the archive, in program order
Pipeline ==
    <<"manifest", "mkdir", "html", "meta", "load_catalog", "save_catalog", "title",
      "last_size", "raw">>

\* the position a call is at after the statement
After(statement) ==
    LET i == CHOOSE k \in DOMAIN Pipeline : Pipeline[k] = statement
    IN IF i = Len(Pipeline) THEN "returned" ELSE Pipeline[i + 1]

\* a variant that reads the manifest again before changing it
ManifestInHand_Reloaded(loaded, persisted) == load_manifest(persisted)

\* lines 1259 and 1299: the dict archive() changes and saves is the one it
\* loaded at line 1259, whatever the file holds by now
ManifestInHand(loaded, persisted) == loaded

\* a process is between two calls
Resting(p) == calls[p].pc \in {"idle", "rejected", "unchanged", "raised", "returned", "interrupted"}

\* the call of process p moves to position pc, having written the files
Moved(p, pc, files) == calls' = [calls EXCEPT ![p].pc = pc, ![p].wrote = @ \cup files]

\* lines 1250-1290: the transcript and the manifest are read and the call
\* decides what it will do
Begin(p, session_id, force, force_retitle) ==
    /\ Resting(p)
    /\ steps < MaxSteps
    /\ manifest.status # "corrupt"
    /\ steps' = steps + 1
    /\ LET tr == transcripts[session_id]
           m == load_manifest(manifest)
           existing_dir == IF session_id \in DOMAIN m THEN <<m[session_id]>> ELSE <<>>
           output_dir0 == IF existing_dir # <<>> /\ ~force_retitle /\ ~force
                          THEN existing_dir ELSE <<>>
           call == [Idle EXCEPT !.session_id = session_id, !.force = force,
                                !.force_retitle = force_retitle, !.m = m,
                                !.existing_dir = existing_dir, !.c = calls[p].c,
                                !.marker_exists =
                                    /\ existing_dir # <<>>
                                    /\ existing_dir[1] \in DOMAIN fs
                                    /\ fs[existing_dir[1]].last_size # <<>>]
       IN IF ~tr.exists \/ IsWhitespaceOnly(tr.lines)
          THEN calls' = [calls EXCEPT ![p] = [call EXCEPT !.pc = "rejected"]]
          ELSE IF IsUnchanged(fs, existing_dir, force, force_retitle, Bytes(tr.lines))
          THEN calls' = [calls EXCEPT ![p] = [call EXCEPT !.pc = "unchanged"]]
          ELSE \E t \in {ChooseTitle(fs, <<>>, output_dir0, tr.lines)} :
               LET directory_name == IF output_dir0 = <<>> \/ force_retitle
                                     THEN NewDirectoryName(t, session_id, today)
                                     ELSE output_dir0[1]
               IN calls' = [calls EXCEPT ![p] =
                      [call EXCEPT !.pc = IF existing_dir # <<>> /\ force_retitle
                                          THEN "rename" ELSE Pipeline[1],
                                   !.content = tr.lines,
                                   !.title = t,
                                   !.directory_name = directory_name,
                                   !.metadata = create_session_metadata(
                                       session_id, tr.lines, t, directory_name, <<>>,
                                       NeedsReview(<<>>))]]
    /\ UNCHANGED <<manifest, catalog, fs, transcripts, sidecar, today, env, last, writers>>
    /\ UNCHANGED ScanVars

\* lines 1293-1294: the old directory, if it is there, is renamed
RenameDir(p) ==
    /\ calls[p].pc = "rename"
    /\ LET from == calls[p].existing_dir[1]
           to == calls[p].directory_name
       IN IF from \notin DOMAIN fs THEN Moved(p, Pipeline[1], {}) /\ fs' = fs
          ELSE IF RenameRaises(fs, from, to) THEN Moved(p, "raised", {}) /\ fs' = fs
          ELSE Moved(p, Pipeline[1], {}) /\ fs' = Rename(fs, from, to)
    /\ UNCHANGED <<manifest, catalog, transcripts, sidecar, today, env, last, steps, writers>>
    /\ UNCHANGED ScanVars

\* lines 1299-1300
SaveManifest(p) ==
    /\ calls[p].pc = "manifest"
    /\ LET m == ManifestInHand(calls[p].m, manifest)
       IN manifest' = save_manifest(
              [s \in DOMAIN m \cup {calls[p].session_id} |->
                  IF s = calls[p].session_id THEN calls[p].directory_name ELSE m[s]])
    /\ writers' = [writers EXCEPT !.manifest = p]
    /\ Moved(p, After("manifest"), {"manifest"})
    /\ UNCHANGED <<catalog, fs, transcripts, sidecar, today, env, last, steps>>
    /\ UNCHANGED ScanVars

\* line 1302
MakeDir(p) ==
    /\ calls[p].pc = "mkdir"
    /\ fs' = Mkdir(fs, calls[p].directory_name)
    /\ Moved(p, After("mkdir"), {"mkdir"})
    /\ UNCHANGED <<manifest, catalog, transcripts, sidecar, today, env, last, steps, writers>>
    /\ UNCHANGED ScanVars

\* a file of the session directory is written; write_text raises when the
\* directory is not there any more
WriteFile(p, statement, file, dir) ==
    /\ calls[p].pc = statement
    /\ IF calls[p].directory_name \in DOMAIN fs
       THEN /\ fs' = [fs EXCEPT ![calls[p].directory_name] = dir]
            /\ Moved(p, After(statement), {file})
       ELSE /\ fs' = fs
            /\ Moved(p, "raised", {})
    /\ UNCHANGED <<manifest, catalog, transcripts, today, env, last, steps, writers>>
    /\ UNCHANGED ScanVars

\* lines 1321-1344: the renderer writes index.html, or fails and is logged
RenderHtml(p) ==
    /\ calls[p].pc = "html"
    /\ IF calls[p].directory_name \in DOMAIN fs /\ RunRenderer(env.renderer).html
       THEN /\ fs' = [fs EXCEPT ![calls[p].directory_name].html = TRUE]
            /\ Moved(p, After("html"), {"index.html"})
       ELSE /\ fs' = fs
            /\ Moved(p, After("html"), {})
    /\ UNCHANGED <<manifest, catalog, transcripts, sidecar, today, env, last, steps, writers>>
    /\ UNCHANGED ScanVars

\* line 1364, write_metadata_sidecar: session.meta.json and the sidecar
WriteMeta(p) ==
    /\ WriteFile(p, "meta", "session.meta.json",
                 [fs[calls[p].directory_name] EXCEPT !.meta = <<calls[p].metadata>>])
    /\ sidecar' = IF calls[p].directory_name \in DOMAIN fs /\ env.sidecar_ok
                  THEN [sidecar EXCEPT ![calls[p].session_id] = <<calls[p].metadata>>]
                  ELSE sidecar

\* update_catalog, line 325: the catalog is loaded
LoadCatalog(p) ==
    /\ calls[p].pc = "load_catalog"
    /\ calls' = [calls EXCEPT ![p].pc = After("load_catalog"), ![p].c = load_catalog(catalog)]
    /\ UNCHANGED <<manifest, catalog, fs, transcripts, sidecar, today, env, last, steps, writers>>
    /\ UNCHANGED ScanVars

\* update_catalog, lines 327-351: the entry is put into the loaded catalog,
\* which is sorted and saved
SaveCatalog(p) ==
    /\ calls[p].pc = "save_catalog"
    /\ catalog' = update_catalog(save_catalog(calls[p].c), calls[p].metadata)
    /\ writers' = [writers EXCEPT !.catalog = p]
    /\ Moved(p, After("save_catalog"), {"catalog"})
    /\ UNCHANGED <<manifest, fs, transcripts, sidecar, today, env, last, steps>>
    /\ UNCHANGED ScanVars

\* line 1394
WriteTitle(p) ==
    /\ WriteFile(p, "title", ".title",
                 [fs[calls[p].directory_name] EXCEPT !.title = <<calls[p].title>>])
    /\ UNCHANGED sidecar

\* line 1395: the size the transcript has by now
WriteLastSize(p) ==
    /\ WriteFile(p, "last_size", ".last_size",
                 [fs[calls[p].directory_name] EXCEPT
                     !.last_size = <<Bytes(transcripts[calls[p].session_id].lines)>>])
    /\ UNCHANGED sidecar

\* lines 1398-1400: the raw backup is written and the call returns
WriteRaw(p) ==
    /\ WriteFile(p, "raw", "raw-transcript.jsonl",
                 [fs[calls[p].directory_name] EXCEPT !.raw = <<calls[p].content>>])
    /\ UNCHANGED sidecar

\* the statements of a call that is under way
Statement(p) ==
    \/ RenameDir(p)
    \/ SaveManifest(p)
    \/ MakeDir(p)
    \/ RenderHtml(p)
    \/ WriteMeta(p)
    \/ LoadCatalog(p)
    \/ SaveCatalog(p)
    \/ WriteTitle(p)
    \/ WriteLastSize(p)
    \/ WriteRaw(p)

\* the process is killed between two statements of a call
Interrupt(p) ==
    /\ ~Resting(p)
    /\ calls' = [calls EXCEPT ![p].pc = "interrupted"]
    /\ UNCHANGED <<manifest, catalog, fs, transcripts, sidecar, today, env, last, steps, writers>>
    /\ UNCHANGED ScanVars

\* the session goes on and its transcript grows
Grow(session_id) ==
    /\ transcripts[session_id] = TranscriptFile(LinesFix)
    /\ transcripts' = [transcripts EXCEPT ![session_id] = TranscriptFile(LinesGrown)]
    /\ UNCHANGED <<manifest, catalog, fs, sidecar, today, env, last, steps, calls, writers>>
    /\ UNCHANGED ScanVars

LinesTests == <<UserLine(TextTests, <<TimeEarly>>)>>

InitInterrupt ==
    /\ ScanIdle
    /\ ArchiveEmpty
    /\ transcripts = [s \in SessionIds |->
                         IF s = SessionA THEN TranscriptFile(LinesFix)
                         ELSE TranscriptFile(LinesTests)]
    /\ env \in Environments

\* one process, which can be killed
NextInterrupt ==
    \/ \E s \in SessionIds, force \in BOOLEAN, force_retitle \in BOOLEAN :
           Begin(1, s, force, force_retitle)
    \/ Statement(1)
    \/ Interrupt(1)
    \/ Grow(SessionA)

SpecInterrupt == InitInterrupt /\ [][NextInterrupt]_vars

\* the session each process archives
SessionOf == [p \in Procs |-> IF p = 1 THEN SessionA ELSE SessionB]

InitConcurrent ==
    /\ InitInterrupt
    /\ env.renderer = "ok"

\* two processes, each archiving its own session, on one archive root
NextConcurrent ==
    \/ \E p \in Procs, force \in BOOLEAN, force_retitle \in BOOLEAN :
           Begin(p, SessionOf[p], force, force_retitle)
    \/ \E p \in Procs : Statement(p)

SpecConcurrent == InitConcurrent /\ [][NextConcurrent]_vars

(***************************************************************************)
(* Properties                                                              *)
(***************************************************************************)
CatalogSessions == catalog.data.sessions

\* C1: after any sequence of update_catalog calls the persisted catalog has
\* total_sessions equal to its number of entries, needs_review_count equal to
\* the number of entries marked needs_review, and no two entries with the same
\* session id.
C1CatalogIntegrity ==
    catalog.status = "ok" =>
        /\ catalog.data.total_sessions = Len(CatalogSessions)
        /\ catalog.data.needs_review_count =
               Cardinality({i \in DOMAIN CatalogSessions : CatalogSessions[i].needs_review})
        /\ \A i, j \in DOMAIN CatalogSessions :
               CatalogSessions[i].id = CatalogSessions[j].id => i = j

\* a known id has just replaced its entry in a catalog of several sessions, one
\* of them to review
C1Witness ==
    /\ last.op = "update_catalog"
    /\ last.path = "replaced"
    /\ catalog.status = "ok"
    /\ Len(CatalogSessions) >= 2
    /\ catalog.data.needs_review_count >= 1
    /\ catalog.data.needs_review_count < Len(CatalogSessions)

\* the session's marker matches its transcript: it is in the manifest, its
\* directory holds .last_size, and the stored size is the transcript's size
MarkerMatches(session_id) ==
    /\ manifest.status = "ok"
    /\ session_id \in DOMAIN manifest.data
    /\ manifest.data[session_id] \in DOMAIN fs
    /\ transcripts[session_id].exists
    /\ fs[manifest.data[session_id]].last_size = <<Bytes(transcripts[session_id].lines)>>

\* C2: a call of archive without force or force_retitle, for a session whose
\* .last_size marker equals the transcript's size, returns None and changes
\* neither the manifest, the catalog, any file of any session directory nor
\* the sidecar.
C2UnchangedIsNoOp ==
    [][(/\ last'.op = "archive"
        /\ steps' = steps + 1
        /\ ~last'.force
        /\ ~last'.force_retitle
        /\ MarkerMatches(last'.session_id))
       => (/\ last'.result = <<>>
           /\ last'.written = {}
           /\ manifest' = manifest
           /\ catalog' = catalog
           /\ fs' = fs
           /\ sidecar' = sidecar)]_vars

\* the last call took the short-circuit on an archived session
C2Witness ==
    /\ last.op = "archive"
    /\ last.path = "unchanged"
    /\ ~last.force
    /\ ~last.force_retitle
    /\ MarkerMatches(last.session_id)

\* C3: a call of archive with force and no title argument, for a session
\* archived before (with whatever title arguments) whose transcript is
\* unchanged since, rewrites session.meta.json in the directory the session
\* was archived to.
C3ForceRewritesMetadata ==
    (/\ last.op = "archive"
     /\ last.force
     /\ ~last.force_retitle
     /\ last.provided_title = <<>>
     /\ last.was_current)
    => <<last.before[1], "session.meta.json">> \in last.written

\* the name archive derives for the last call's provided title
RetitledName == NewDirectoryName(last.provided_title[1], last.session_id, today)

\* C4: a call of archive with force_retitle and a new provided title, for a
\* session whose directory exists, renames that directory to the name derived
\* from the title: the old directory is gone, the new one holds the session's
\* files, and neither the manifest nor the session's catalog entry names the
\* old directory.
C4RetitleRenames ==
    (/\ last.op = "archive"
     /\ last.force_retitle
     /\ last.provided_title # <<>>
     /\ last.before_exists
     /\ last.before_title # last.provided_title
     /\ RetitledName # last.before[1])
    => (/\ last.before[1] \notin DOMAIN fs
        /\ RetitledName \in DOMAIN fs
        /\ fs[RetitledName].meta # <<>>
        /\ fs[RetitledName].meta[1].id = last.session_id
        /\ fs[RetitledName].raw = <<transcripts[last.session_id].lines>>
        /\ manifest.data[last.session_id] = RetitledName
        /\ \A i \in DOMAIN CatalogSessions :
               CatalogSessions[i].id = last.session_id
                   => CatalogSessions[i].directory = RetitledName)

\* the paths a list of artifacts reports
PathsOf(list) == {list[i].path : i \in DOMAIN list}

\* the file paths that appear in a tool call of the tool tool_name somewhere in
\* the transcript
Used(tool_name) ==
    {p \in PathPool :
        \E i \in DOMAIN content :
            /\ content[i].kind = "entry"
            /\ content[i].content.kind = "list"
            /\ \E j \in DOMAIN content[i].content.blocks :
                   /\ content[i].content.blocks[j].type = "tool_use"
                   /\ content[i].content.blocks[j].name = tool_name
                   /\ content[i].content.blocks[j].file_path = p}

\* the paths as extract_artifacts reports them: relative to the project root
\* where one is given and the path is under it
Reported(S) == {make_relative(p, project_dir) : p \in S}

\* C5: for every transcript and every optional project root the created,
\* modified and referenced lists are pairwise disjoint by path, and the union
\* of their paths is the set of distinct file paths of the Write, Edit and Read
\* tool calls (each as the extractor reports it).
C5DisjointAndComplete ==
    /\ PathsOf(artifacts.created) \cap PathsOf(artifacts.modified) = {}
    /\ PathsOf(artifacts.created) \cap PathsOf(artifacts.referenced) = {}
    /\ PathsOf(artifacts.modified) \cap PathsOf(artifacts.referenced) = {}
    /\ PathsOf(artifacts.created) \cup PathsOf(artifacts.modified)
           \cup PathsOf(artifacts.referenced)
       = Reported(Used("Write") \cup Used("Edit") \cup Used("Read"))

CallAt(i, tool_name, path) ==
    /\ content[i].kind = "entry"
    /\ content[i].content.kind = "list"
    /\ \E j \in DOMAIN content[i].content.blocks :
           content[i].content.blocks[j] = ToolUse(tool_name, path)

RejectedText(text) ==
    \/ Len(Strip(text)) < MinRequestLen
    \/ \E i \in DOMAIN ide_patterns : StartsWithCI(Strip(text), ide_patterns[i])

\* the positions of the user messages that are not rejected
Accepted ==
    {i \in DOMAIN content :
        /\ IsUserEntry(content[i])
        /\ ~RejectedText(TitleCandidate(content[i]))}

FirstAccepted == CHOOSE i \in Accepted : \A j \in Accepted : i <= j

TitleFixTheBug == <<"f","i","x"," ","t","h","e"," ","b","u","g">>

TitleCanYouFixTheBug == <<"c","a","n"," ","y","o","u"," ","f","i","x"," ","t","h","e"," ","b","u","g">>

\* the title is taken from the text "Hello can you fix the bug?"
ExampleAccepted ==
    /\ Accepted # {}
    /\ TitleCandidate(content[FirstAccepted]) = TextExample

\* C8, as claimed: for the accepted user text "Hello can you fix the bug?" the
\* generated title is "fix the bug".
C8ExampleAsClaimed == ExampleAccepted => title = TitleFixTheBug

\* C8, amended: for the accepted user text "Hello can you fix the bug?" the
\* generated title is "can you fix the bug": the one greeting at the very start
\* is stripped, the phrase after it stays, and the text is cut at the first
\* sentence terminator.
C8ExampleTitle == ExampleAccepted => title = TitleCanYouFixTheBug

C8Witness ==
    /\ ExampleAccepted
    /\ FirstAccepted > 1
    /\ title = TitleCanYouFixTheBug

\* C9: in every completed archive call the session metadata written has
\* needs_review false exactly when a three_ps summary was supplied, and its
\* three_ps is the supplied summary, or three empty strings when there was
\* none; on a re-archive too.
C9NeedsReviewIffNoSummary ==
    (last.op = "archive" /\ last.result # <<>>)
    => /\ <<last.result[1], "session.meta.json">> \in last.written
       /\ fs[last.result[1]].meta # <<>>
       /\ fs[last.result[1]].meta[1].id = last.session_id
       /\ fs[last.result[1]].meta[1].needs_review = (last.three_ps = <<>>)
       /\ fs[last.result[1]].meta[1].three_ps =
              (IF last.three_ps = <<>> THEN EmptyThreePs ELSE last.three_ps[1])

\* a session archived without a summary is archived again, into the same
\* directory, with one
C9Witness ==
    /\ last.op = "archive"
    /\ last.path = "full"
    /\ last.three_ps # <<>>
    /\ last.before = last.result
    /\ steps >= 2
    /\ fs[last.result[1]].meta[1].needs_review = FALSE
    /\ \E i \in DOMAIN CatalogSessions :
           CatalogSessions[i].id = last.session_id /\ ~CatalogSessions[i].needs_review

\* C10: a call of archive for a transcript that does not exist or holds only
\* whitespace logs one error, returns None without raising, and creates or
\* modifies no manifest, catalog, session directory or sidecar.
C10BadInputIsNoOp ==
    [][(/\ last'.op = "archive"
        /\ steps' = steps + 1
        /\ \/ ~transcripts[last'.session_id].exists
           \/ \A i \in DOMAIN transcripts[last'.session_id].lines :
                  transcripts[last'.session_id].lines[i].kind = "blank")
       => (/\ last'.result = <<>>
           /\ last'.errors = 1
           /\ last'.path \in {"missing", "empty"}
           /\ last'.written = {}
           /\ manifest' = manifest
           /\ catalog' = catalog
           /\ fs' = fs
           /\ sidecar' = sidecar)]_vars

\* a whitespace-only transcript is given for an archived session, and the
\* archive of the session is as it was
C10Witness ==
    /\ last.op = "archive"
    /\ last.path = "empty"
    /\ last.errors = 1
    /\ last.before_exists
    /\ transcripts[last.session_id] = TranscriptFile(<<BlankLine>>)

\* C13: after every update_catalog the catalog entries are ordered by
\* started_at descending, and the entries without a started_at come after
\* all the entries that have one.
C13CatalogSorted ==
    last.op = "update_catalog" =>
        \A i, j \in DOMAIN CatalogSessions :
            i < j =>
                /\ ~StrLess(SortKey(CatalogSessions[i]), SortKey(CatalogSessions[j]))
                /\ CatalogSessions[i].started_at = <<>> => CatalogSessions[j].started_at = <<>>

\* an update replaced an entry of a catalog that now holds a later, an earlier
\* and an undated session
C13Witness ==
    /\ last.op = "update_catalog"
    /\ last.path = "replaced"
    /\ Len(CatalogSessions) = 3
    /\ CatalogSessions[1].started_at = <<TimeLate>>
    /\ CatalogSessions[2].started_at = <<TimeEarly>>
    /\ CatalogSessions[3].started_at = <<>>
    /\ CatalogSessions[1].id = last.session_id

\* the cost of a token total at 3.00, 15.00 and 0.30 dollars per million
\* input, output and cache-read tokens, in units of 10^-7 dollar
RatedCost(t) == 30 * t.input + 150 * t.output + 3 * t.cache_read

\* whether cost, in units of 0.0001 dollar, is a rounding of exact, in units of
\* 10^-7 dollar, to four decimals
RoundsTo(cost, exact) ==
    /\ 2 * (1000 * cost - exact) <= 1000
    /\ 2 * (exact - 1000 * cost) <= 1000

\* C14: estimate_cost is the cost of the three token totals at 3.00, 15.00 and
\* 0.30 dollars per million, rounded to four decimals: a million of each costs
\* 18.30, no tokens cost 0.0, and the costs of two totals add up to the cost of
\* their sum up to the rounding to four decimals.
C14CostEstimate ==
    costs.cost_a # <<>> =>
        /\ RoundsTo(costs.cost_a[1], RatedCost(costs.a))
        /\ RoundsTo(costs.cost_b[1], RatedCost(costs.b))
        /\ RoundsTo(costs.cost_merged[1], RatedCost(MergeTokens(costs.a, costs.b)))
        /\ costs.a = [input |-> 1000000, output |-> 1000000, cache_read |-> 1000000]
               => costs.cost_a[1] = 183000
        /\ costs.a = [input |-> 0, output |-> 0, cache_read |-> 0] => costs.cost_a[1] = 0
        /\ costs.cost_a[1] + costs.cost_b[1] - costs.cost_merged[1] \in {-1, 0, 1}

\* a million tokens of each kind cost 18.30, and with the cost of a second
\* total the sum differs in the last decimal from the cost of the merged total
C14Witness ==
    /\ costs.cost_a = <<183000>>
    /\ costs.a.cache_read = 1000000
    /\ costs.cost_b # <<0>>
    /\ costs.cost_a[1] + costs.cost_b[1] # costs.cost_merged[1]

\* the effective role of an event: message.role when present, else type
RoleOf(line) == IF line.role # <<>> THEN line.role ELSE line.type

\* the number of lines of the transcript whose effective role is role
CountRole(role) == Cardinality({i \in DOMAIN content : RoleOf(content[i]) = role})

\* C15: extract_session_stats counts messages by the effective role alone
\* (message.role when present, else type): human_messages is the number of
\* events whose effective role is user, assistant_messages the number whose
\* effective role is assistant, and turns equals human_messages, so an event
\* whose message.role and type disagree is counted under message.role.
C15CountsByEffectiveRole ==
    /\ stats.counts.human_messages = CountRole(<<"user">>)
    /\ stats.counts.assistant_messages = CountRole(<<"assistant">>)
    /\ stats.counts.turns = stats.counts.human_messages

\* the transcript without its records of type file-history-snapshot
WithoutSnapshots(lines) ==
    SelectSeq(lines, LAMBDA l : ~(l.kind = "entry" /\ l.type = SnapshotType))

\* C16: a record of type file-history-snapshot contributes to no derived
\* value: the statistics of a transcript, started_at, ended_at and
\* duration_minutes included, are those of the transcript without its
\* snapshot records.
C16SnapshotsContributeNothing ==
    stats = extract_session_stats(WithoutSnapshots(content))

\* the sum, over the events of lines that are no snapshots, of a counter of the
\* usage record inside message, a missing record or counter counting 0
RECURSIVE SumMessageUsage(_, _)
SumMessageUsage(lines, counter) ==
    IF lines = <<>> THEN 0
    ELSE LET l == Head(lines)
             n == IF /\ l.kind = "entry"
                     /\ l.type # SnapshotType
                     /\ l.message_usage # <<>>
                     /\ counter \in DOMAIN l.message_usage[1]
                  THEN l.message_usage[1][counter] ELSE 0
         IN n + SumMessageUsage(Tail(lines), counter)

\* C17: the token totals are the sums, over every event of any role that is
\* no snapshot, of the input, output and cache-read counters of the usage
\* record inside the event's message, a missing record or counter counting 0.
C17TokensFromMessageUsage ==
    /\ stats.counts.tokens.input = SumMessageUsage(content, "input_tokens")
    /\ stats.counts.tokens.output = SumMessageUsage(content, "output_tokens")
    /\ stats.counts.tokens.cache_read = SumMessageUsage(content, "cache_read_input_tokens")

\* C18: when no event carries a timestamp, started_at and ended_at are null
\* and duration_minutes is 0; otherwise started_at and ended_at are collected
\* timestamps, duration_minutes is floor((ended_at - started_at) in seconds /
\* 60) and never negative, and it is 0 when a timestamp cannot be parsed.
C18Duration ==
    LET collected == {i \in DOMAIN content : content[i].timestamp # <<>>}
        start == fromisoformat(stats.started_at[1])
        end == fromisoformat(stats.ended_at[1])
    IN /\ collected = {} =>
              /\ stats.started_at = <<>>
              /\ stats.ended_at = <<>>
              /\ stats.duration_minutes = 0
       /\ collected # {} =>
              /\ \E i \in collected : stats.started_at = content[i].timestamp
              /\ \E i \in collected : stats.ended_at = content[i].timestamp
              /\ stats.duration_minutes >= 0
              /\ (start = <<>> \/ end = <<>>) => stats.duration_minutes = 0
              /\ (start # <<>> /\ end # <<>> /\ start[1].aware /\ end[1].aware) =>
                     stats.duration_minutes = (end[1].seconds - start[1].seconds) \div 60

\* the events of the transcript whose role is assistant
AssistantEvents(lines) == SelectSeq(lines, LAMBDA l : RoleOf(l) = <<"assistant">>)

\* C19: extract_artifacts considers only the tool_use blocks of assistant-role
\* events: the three lists are those of the transcript's assistant events, so
\* a Write, Edit or Read block of an event of another role contributes to none.
C19AssistantBlocksOnly ==
    artifacts = extract_artifacts(AssistantEvents(content), project_dir)

\* whether the list is sorted by the path field of its elements
SortedByPath(list) ==
    \A i, j \in DOMAIN list : i < j => ~StrLess(list[j].path, list[i].path)

\* C20: each of the created, modified and referenced lists is sorted
\* lexicographically by the path it outputs, with and without a project root,
\* and a path that is not under the root is reported as it was given.
C20ListsSortedByOutputPath ==
    /\ SortedByPath(artifacts.created)
    /\ SortedByPath(artifacts.modified)
    /\ SortedByPath(artifacts.referenced)
    /\ (Used("Write") \cup Used("Edit") \cup Used("Read")) \cap {PathOutside}
           \subseteq PathsOf(artifacts.created) \cup PathsOf(artifacts.modified)
                         \cup PathsOf(artifacts.referenced)

\* C11: loading a manifest or a catalog that cannot be parsed is never fatal:
\* it is read as a fresh default, so a call of archive for a transcript with
\* content, made while the manifest or the catalog cannot be parsed, does not
\* raise; it archives the session and leaves a manifest and a catalog that
\* can be parsed.
C11CorruptStateNotFatal ==
    [][(/\ last'.op = "archive"
        /\ steps' = steps + 1
        /\ transcripts[last'.session_id].exists
        /\ ~IsWhitespaceOnly(transcripts[last'.session_id].lines)
        /\ (manifest.status = "corrupt" \/ catalog.status = "corrupt"))
       => (/\ last'.path # "raised"
           /\ manifest.status = "corrupt" =>
                  /\ last'.path = "full"
                  /\ manifest'.status = "ok"
                  /\ last'.session_id \in DOMAIN manifest'.data
           /\ last'.path = "full" => catalog'.status = "ok")]_vars

\* the outcome of the call that last made, had both external tools succeeded
WithToolsOk ==
    archive(last'.session_id, last'.force, last'.force_retitle, last'.provided_title,
            last'.three_ps, "ok", "ok", env.sidecar_ok)

\* C12: a failure of an external tool never aborts archiving: when the
\* renderer is missing or fails, or pandoc is missing, fails or times out, a
\* call of archive that would archive the session with working tools still
\* writes session.meta.json, updates the catalog and the manifest, writes
\* .title, .last_size and raw-transcript.jsonl, and returns the same directory.
C12ToolFailureDoesNotAbort ==
    [][(/\ last'.op = "archive"
        /\ steps' = steps + 1
        /\ (env.renderer # "ok" \/ env.pandoc # "ok")
        /\ WithToolsOk.path = "full")
       => (/\ last'.path = "full"
           /\ last'.result = WithToolsOk.result
           /\ manifest' = WithToolsOk.manifest
           /\ catalog' = WithToolsOk.catalog
           /\ \A f \in {"session.meta.json", ".title", ".last_size", "raw-transcript.jsonl"} :
                  <<last'.result[1], f>> \in last'.written
           /\ LET dir == fs'[last'.result[1]]
                  ok == WithToolsOk.fs[last'.result[1]]
              IN /\ dir.meta = ok.meta /\ dir.meta # <<>>
                 /\ dir.title = ok.title /\ dir.title # <<>>
                 /\ dir.last_size = ok.last_size /\ dir.last_size # <<>>
                 /\ dir.raw = ok.raw /\ dir.raw # <<>>)]_vars

\* a session was archived with exports while the renderer is missing and
\* pandoc times out: its directory holds the metadata, the markers, the raw
\* transcript and conversation.md, and neither index.html nor conversation.pdf
C12Witness ==
    /\ last.op = "archive"
    /\ last.path = "full"
    /\ last.three_ps # <<>>
    /\ env.renderer = "missing"
    /\ env.pandoc = "timeout"
    /\ last.errors = 1
    /\ last.result # <<>>
    /\ LET dir == fs[last.result[1]]
       IN /\ dir.meta # <<>> /\ dir.raw # <<>> /\ dir.title # <<>>
          /\ dir.md /\ ~dir.pdf /\ ~dir.html
    /\ \E i \in DOMAIN CatalogSessions : CatalogSessions[i].id = last.session_id

\* C22: across archive operations the manifest only grows: a session id once
\* present is never removed, and the directory stored for a present id is
\* replaced only by a call with force_retitle for that id; every other call,
\* force without retitle and a re-archive of changed content included, leaves
\* the stored value unchanged.
C22ManifestOnlyGrows ==
    [][\A s \in DOMAIN manifest.data :
           /\ s \in DOMAIN manifest'.data
           /\ manifest'.data[s] # manifest.data[s] =>
                  /\ last'.op = "archive"
                  /\ last'.session_id = s
                  /\ last'.force_retitle]_vars

\* the slug of a title: its word characters, spaces and hyphens, runs of
\* spaces as one hyphen, cut to 50 characters, lower case, no hyphens at
\* either end; empty when the title has no word character
SlugOf(t) == StripHyphens(LowerStr(Take(CollapseSpace(RemoveUnsafe(t)), 50)))

\* C23: when archive computes a new directory name, the name is the current
\* date followed by the slug of the title, and when that slug is empty the
\* first 8 characters of the session id take its place.
C23DirectoryName ==
    [][(/\ last'.op = "archive"
        /\ last'.path = "full"
        /\ (last'.before = <<>> \/ last'.force \/ last'.force_retitle))
       => LET t == fs'[last'.result[1]].title[1]
          IN last'.result[1] =
                 DateStr(today) \o <<"-">>
                     \o (IF SlugOf(t) # <<>> THEN SlugOf(t) ELSE Take(last'.session_id, 8))]_vars

C27DistinctDirectories ==
    \A s1, s2 \in DOMAIN manifest.data :
        s1 # s2 => manifest.data[s1] # manifest.data[s2]

\* C28: after every archive call that returns a directory for session s the
\* manifest, the catalog and the filesystem agree: the catalog has exactly one
\* entry for s, its directory is the manifest's directory of s and the
\* directory_name of session.meta.json, and that directory exists and holds
\* session.meta.json, .title, .last_size and raw-transcript.jsonl.
C28StoresAgree ==
    (last.op = "archive" /\ last.result # <<>>) =>
        LET s == last.session_id
            d == last.result[1]
            entries == {i \in DOMAIN CatalogSessions : CatalogSessions[i].id = s}
        IN /\ Cardinality(entries) = 1
           /\ s \in DOMAIN manifest.data
           /\ manifest.data[s] = d
           /\ \A i \in entries : CatalogSessions[i].directory = d
           /\ d \in DOMAIN fs
           /\ fs[d].meta # <<>>
           /\ fs[d].meta[1].directory_name = d
           /\ fs[d].meta[1].id = s
           /\ fs[d].title # <<>>
           /\ fs[d].last_size # <<>>
           /\ fs[d].raw # <<>>

\* a retitle moved an archived session to another directory while a second
\* session is in the catalog
C28Witness ==
    /\ last.op = "archive"
    /\ last.result # <<>>
    /\ last.force_retitle
    /\ last.before_exists
    /\ last.result # last.before
    /\ Len(CatalogSessions) = 2
    /\ last.before[1] \notin DOMAIN fs

\* C29: every session directory under the archive root is the manifest's
\* current value for some session id: re-archiving a session never leaves a
\* previous directory of that session behind.
C29NoOrphanDirectories ==
    \A d \in DOMAIN fs : \E s \in DOMAIN manifest.data : manifest.data[s] = d

\* C30: after an archive call without force or retitle on a transcript that
\* exists and has content, whether the call short-circuits or re-archives, the
\* session's raw-transcript.jsonl equals the transcript's current content.
C30RawIsCurrent ==
    [][(/\ last'.op = "archive"
        /\ steps' = steps + 1
        /\ ~last'.force /\ ~last'.force_retitle
        /\ transcripts[last'.session_id].exists
        /\ ~IsWhitespaceOnly(transcripts[last'.session_id].lines))
       => (/\ last'.session_id \in DOMAIN manifest'.data
           /\ manifest'.data[last'.session_id] \in DOMAIN fs'
           /\ fs'[manifest'.data[last'.session_id]].raw
                  = <<transcripts[last'.session_id].lines>>)]_vars

\* the UUID-shaped tokens of the user messages of the lines, in reading order
RECURSIVE UserUuidTokens(_)
UserUuidTokens(lines) ==
    IF lines = <<>> THEN <<>>
    ELSE (IF IsUserEntry(Head(lines)) THEN finditer(MessageText(Head(lines)), 1) ELSE <<>>)
             \o UserUuidTokens(Tail(lines))

\* the elements of a sequence, each once, in the order of their first occurrence
FirstSeen(seq) ==
    LET firsts == {i \in DOMAIN seq : \A j \in 1..(i - 1) : seq[j] # seq[i]}
        RECURSIVE Pick(_)
        Pick(i) == IF i > Len(seq) THEN <<>>
                   ELSE (IF i \in firsts THEN <<seq[i]>> ELSE <<>>) \o Pick(i + 1)
    IN Pick(1)

\* the notes on session ID references among the detection notes, in order
ReferenceNotes == SelectSeq(hints.detection_notes, LAMBDA n : n.found = "session ID reference")

WriteOrder ==
    <<"manifest", "mkdir", "session.meta.json", "catalog", ".title", ".last_size",
      "raw-transcript.jsonl">>

\* the catalog has an entry of the session with the directory
InCatalog(session_id, directory_name) ==
    \E i \in DOMAIN CatalogSessions :
        /\ CatalogSessions[i].id = session_id
        /\ CatalogSessions[i].directory = directory_name

\* what the call has written is a beginning of the order of writes, and with
\* .last_size written its session.meta.json and catalog entry are there
WrittenInOrder(call) ==
    /\ \E k \in 0..Len(WriteOrder) :
           call.wrote \ {"index.html"} = {WriteOrder[i] : i \in 1..k}
    /\ ".last_size" \in call.wrote =>
           /\ call.directory_name \in DOMAIN fs
           /\ fs[call.directory_name].meta = <<call.metadata>>
           /\ InCatalog(call.session_id, call.directory_name)
    /\ call.pc = "returned" =>
           /\ call.wrote \ {"index.html"} = {WriteOrder[i] : i \in DOMAIN WriteOrder}
           /\ fs[call.directory_name].raw = <<call.content>>
           /\ fs[call.directory_name].title = <<call.title>>
           /\ fs[call.directory_name].last_size # <<>>

\* C25: a full archive writes in the order manifest, session directory,
\* session.meta.json, catalog, .title and .last_size, raw-transcript.jsonl;
\* so wherever the call is interrupted, a .last_size written by it implies
\* that its session.meta.json and catalog entry are written, and the next
\* call for a session that is in the manifest without a .last_size does not
\* return unchanged but archives the session in full.
C25InterruptedArchiveRecovers ==
    [][/\ WrittenInOrder(calls[1])'
       /\ (/\ steps' = steps + 1
           /\ calls'[1].existing_dir # <<>>
           /\ ~calls'[1].marker_exists
           /\ transcripts[calls'[1].session_id].exists
           /\ ~IsWhitespaceOnly(transcripts[calls'[1].session_id].lines))
          => calls'[1].pc \in {"rename", Pipeline[1]}]_vars

\* a call for a session that an interrupted call left in the manifest without
\* a .last_size has gone as far as .last_size, and is interrupted in its turn
C25Witness ==
    /\ calls[1].pc = "interrupted"
    /\ calls[1].existing_dir # <<>>
    /\ ~calls[1].marker_exists
    /\ ~calls[1].force /\ ~calls[1].force_retitle
    /\ ".last_size" \in calls[1].wrote
    /\ "raw-transcript.jsonl" \notin calls[1].wrote

\* C26: the manifest and the catalog are read, changed and written without
\* coordination.  With two processes archiving different sessions, the entry
\* that a call saved is missing from the persisted manifest (catalog) exactly
\* when the other process saved last, from a copy without that entry: there
\* are interleavings that lose an update.
C26LostUpdate ==
    \A p \in Procs : \A q \in Procs \ {p} :
        /\ "manifest" \in calls[p].wrote =>
               (SessionOf[p] \notin DOMAIN manifest.data
                    <=> (writers.manifest = q /\ SessionOf[p] \notin DOMAIN calls[q].m))
        /\ "catalog" \in calls[p].wrote =>
               ((\A i \in DOMAIN CatalogSessions : CatalogSessions[i].id # SessionOf[p])
                    <=> (/\ writers.catalog = q
                         /\ \A i \in DOMAIN calls[q].c.sessions :
                                calls[q].c.sessions[i].id # SessionOf[p]))

\* both calls have returned their directories; one session is missing from
\* the manifest and one from the catalog
C26Witness ==
    /\ \A p \in Procs : calls[p].pc = "returned"
    /\ \E p \in Procs : SessionOf[p] \notin DOMAIN manifest.data
    /\ \E p \in Procs : \A i \in DOMAIN CatalogSessions : CatalogSessions[i].id # SessionOf[p]


====
